---- MODULE Spec2Model ----
(***************************************************************************)
(* Org-chart page (src/app/page.tsx), five of its variants                 *)
(* (src/unnamed/part_000, part_001, part_002, part_004, part_005) and the  *)
(* shared CSV route handlers GET and POST /org (src/unnamed/part_000,      *)
(* lines 1-51).                                                            *)
(*                                                                         *)
(* Specifications: Spec and SpecPerManager build the chart from a row      *)
(* list; SpecStore runs uploads against the blob store; SpecGet adds a     *)
(* GET beside them; SpecClient, SpecParsed and SpecNamed are the page of   *)
(* page.tsx, of part_005 and of part_000 fetching and uploading through    *)
(* the handlers; SpecRender follows the render effect of page.tsx through  *)
(* its dynamic import and the clicks on the chart; SpecCounts and SpecDesc *)
(* compute the descendant counts of part_001 and of part_002.              *)
(*                                                                         *)
(* A JavaScript string is a sequence of one-character strings, so that     *)
(* trim, toLowerCase and template-string concatenation are computed and    *)
(* not assumed.  null is the one-element sequence Null, which no string    *)
(* of characters equals.  A parsed CSV row (Record<string,string>) is a    *)
(* function from the header keys it carries to strings.                    *)
(*                                                                         *)
(* photoUrl is left out of the nodes: it is computed from the Photo        *)
(* columns and the name only and nothing reads it back.                    *)
(***************************************************************************)
EXTENDS Integers, Sequences, FiniteSets, TLC

VARIABLES
    rows,           \* page state: the parsed CSV rows
    viewMode,       \* page state: the tab
    chartData,      \* the node list last handed to the chart, <<>> when none
    effectPending,  \* the render effect is due (its dependencies changed)
    adminPassword,  \* process.env.ADMIN_PASSWORD, "" when it is not set
    blobs,          \* the blob store under the prefix org.csv
    clock,          \* the store's clock, the source of uploadedAt
    post,           \* the POST /org handlers, by request slot
    completed,      \* the files of the uploads answered 200, oldest first
    overlapped,     \* some upload was accepted while another was in progress
    get,            \* the GET /org handler
    error,          \* page state: the error line, a list of string pieces
    load,           \* the page's initial fetch of /api/org
    upload,         \* the page's upload: the POST and the fetch after it
    raced,          \* an upload was started before the initial load ended
    effects,        \* the runs of the render effect, oldest first
    container,      \* the charts drawn in the container of chartRef, by run
    chartObjRef,    \* the run whose chart chartObjRef.current holds, 0 for null
    mounted,        \* the component is mounted
    dfs             \* the computation of the descendant counts of the node list

renderVars == <<effects, container, chartObjRef, mounted>>
countVars == <<dfs>>
pageVars == <<rows, viewMode, chartData, effectPending, renderVars, countVars>>
getVars == <<get>>
storeVars == <<adminPassword, blobs, clock, post, completed, overlapped, getVars>>
clientVars == <<error, load, upload, raced>>
vars == <<pageVars, storeVars, clientVars>>

-----------------------------------------------------------------------------
(* Strings *)

Null == <<"<null>">>

LowerChar(c) ==
    CASE c = "A" -> "a"
      [] c = "B" -> "b"
      [] c = "C" -> "c"
      [] c = "X" -> "x"
      [] c = "Y" -> "y"
      [] OTHER -> c

toLowerCase(s) == [i \in 1..Len(s) |-> LowerChar(s[i])]

RECURSIVE trimStart(_)
trimStart(s) ==
    IF s # <<>> /\ Head(s) = " " THEN trimStart(Tail(s)) ELSE s

RECURSIVE trimEnd(_)
trimEnd(s) ==
    IF s # <<>> /\ s[Len(s)] = " " THEN trimEnd(SubSeq(s, 1, Len(s) - 1)) ELSE s

trim(s) == trimEnd(trimStart(s))

\* String(i) for a small array index
Digits == <<"0", "1", "2", "3", "4", "5", "6", "7", "8", "9">>

IndexStr(i) == <<Digits[i + 1]>>

\* normalizeEmail keeping the letter case
normalizeEmail_KeepCase(v) == trim(v)

normalizeEmail(v) == toLowerCase(trim(v))

\* first index of keys whose key the row carries, 0 when none
RECURSIVE firstPresent(_, _, _)
firstPresent(row, keys, i) ==
    IF i > Len(keys) THEN 0
    ELSE IF keys[i] \in DOMAIN row THEN i
    ELSE firstPresent(row, keys, i + 1)

pick(row, keys) ==
    LET i == firstPresent(row, keys, 1)
    IN  IF i = 0 THEN <<>> ELSE row[keys[i]]

-----------------------------------------------------------------------------
(* The tree builder of src/app/page.tsx *)

NamePrefix == <<"n", "a", "m", "e", ":">>
NoName == <<"(", "n", "o", " ", "n", "a", "m", "e", ")">>
PodPrefix == <<"p", "o", "d", ":">>
superRootId == <<"_", "_", "r", "o", "o", "t", "_", "_">>
Aspora == <<"A", "s", "p", "o", "r", "a">>

personOf(r, i) ==
    LET name == trim(pick(r, <<"Name">>))
        email == trim(pick(r, <<"Work Email", "Email", "Work email">>))
        managerEmail == trim(pick(r, <<"Manager Email", "Manager email">>))
        team == trim(pick(r, <<"Team">>))
        location == trim(pick(r, <<"Location", "Country">>))
        pod == trim(pick(r, <<"Pod">>))
        id == IF email # <<>> THEN normalizeEmail(email)
              ELSE NamePrefix \o toLowerCase(name) \o <<":">> \o IndexStr(i)
    IN  [id |-> id,
         parentId |-> IF normalizeEmail(managerEmail) # <<>>
                      THEN normalizeEmail(managerEmail) ELSE Null,
         isPod |-> FALSE,
         name |-> IF name # <<>> THEN name
                  ELSE IF email # <<>> THEN email ELSE NoName,
         email |-> email,
         team |-> team,
         location |-> location,
         pod |-> pod]

\* lines 116-125: the alias lists of the fields
AliasLists ==
    {<<"Name">>, <<"Work Email", "Email", "Work email">>,
     <<"Manager Email", "Manager email">>, <<"Team">>, <<"Location", "Country">>,
     <<"Pod">>, <<"Photo URL", "Photo Url", "Photo">>}

people(rws) ==
    LET kept == SelectSeq(rws, LAMBDA r : DOMAIN r # {})
    IN  [i \in 1..Len(kept) |-> personOf(kept[i], i - 1)]

idSet(ppl) == {ppl[i].id : i \in 1..Len(ppl)}

\* the post-pass left out: every raw manager reference is kept
normalizedPeople_KeepDangling(ppl) == ppl

normalizedPeople(ppl) ==
    LET ids == idSet(ppl)
    IN  [i \in 1..Len(ppl) |->
            [ppl[i] EXCEPT !.parentId =
                IF ppl[i].parentId # Null /\ ppl[i].parentId \in ids
                THEN ppl[i].parentId ELSE Null]]

\* the Map pod -> person ids, as its entries in insertion order
RECURSIVE idsByPodFrom(_, _, _)
idsByPodFrom(np, i, map) ==
    IF i > Len(np) THEN map
    ELSE LET p == np[i]
         IN  IF p.pod = <<>> THEN idsByPodFrom(np, i + 1, map)
             ELSE IF \E k \in 1..Len(map) : map[k].pod = p.pod
             THEN idsByPodFrom(np, i + 1,
                    [k \in 1..Len(map) |->
                        IF map[k].pod = p.pod
                        THEN [map[k] EXCEPT !.ids = Append(@, p.id)]
                        ELSE map[k]])
             ELSE idsByPodFrom(np, i + 1, Append(map, [pod |-> p.pod, ids |-> <<p.id>>]))

idsByPod(np) == idsByPodFrom(np, 1, <<>>)

roots(np) == SelectSeq(np, LAMBDA p : p.parentId = Null)

\* roots[0]?.id || null, or the super-root's id
rootId(np) ==
    LET rs == roots(np)
    IN  IF Len(rs) <= 1
        THEN (IF Len(rs) = 1 /\ rs[1].id # <<>> THEN rs[1].id ELSE Null)
        ELSE superRootId

superRoot ==
    [id |-> superRootId, parentId |-> Null, isPod |-> FALSE, name |-> Aspora,
     email |-> <<>>, team |-> <<>>, location |-> <<>>, pod |-> <<>>]

\* the super-root added without reparenting the natural roots
hierarchyNodes_NoReparent(np) ==
    IF Len(roots(np)) <= 1 THEN np ELSE <<superRoot>> \o np

hierarchyNodes(np) ==
    IF Len(roots(np)) <= 1 THEN np
    ELSE <<superRoot>> \o
         [i \in 1..Len(np) |->
            IF np[i].parentId = Null THEN [np[i] EXCEPT !.parentId = superRootId]
            ELSE np[i]]

\* a.localeCompare(b) < 0 on the letters of the model's pod labels
CharRank(c) ==
    CASE c = " " -> 0
      [] c = "x" -> 1
      [] c = "X" -> 2
      [] c = "y" -> 3
      [] c = "Y" -> 4
      [] OTHER -> 5

RECURSIVE localeLess(_, _)
localeLess(a, b) ==
    IF a = <<>> THEN b # <<>>
    ELSE IF b = <<>> THEN FALSE
    ELSE IF CharRank(Head(a)) # CharRank(Head(b)) THEN CharRank(Head(a)) < CharRank(Head(b))
    ELSE localeLess(Tail(a), Tail(b))

\* byId: the Map keeps, under an id, the last person node set under it
byIdHas(hn, id) == \E i \in 1..Len(hn) : ~hn[i].isPod /\ hn[i].id = id

byIdGet(hn, id) ==
    LET hits == {i \in 1..Len(hn) : ~hn[i].isPod /\ hn[i].id = id}
    IN  hn[CHOOSE i \in hits : \A j \in hits : j <= i]

\* the early return for an empty pod left out
patchPerson_NoEmptyPodGuard(hn, p) ==
    LET hasMgr == p.parentId # Null /\ byIdHas(hn, p.parentId)
        mgrPod == IF hasMgr THEN byIdGet(hn, p.parentId).pod ELSE <<>>
    IN  IF ~hasMgr \/ mgrPod # p.pod
        THEN [p EXCEPT !.parentId = PodPrefix \o p.pod]
        ELSE p

patchPerson(hn, p) ==
    IF p.pod = <<>> THEN p
    ELSE LET hasMgr == p.parentId # Null /\ byIdHas(hn, p.parentId)
             mgrPod == IF hasMgr THEN byIdGet(hn, p.parentId).pod ELSE <<>>
         IN  IF ~hasMgr \/ mgrPod # p.pod
             THEN [p EXCEPT !.parentId = PodPrefix \o p.pod]
             ELSE p

podNodes(mode, hn, byPod, rid) ==
    IF mode # "pod" THEN hn
    ELSE IF rid = Null THEN hn
    ELSE LET keys == [k \in 1..Len(byPod) |-> byPod[k].pod]
             pods == SortSeq(keys, localeLess)
             podGroupNodes ==
                [k \in 1..Len(pods) |->
                    [id |-> PodPrefix \o pods[k], parentId |-> rid,
                     isPod |-> TRUE, name |-> pods[k]]]
             persons == SelectSeq(hn, LAMBDA n : ~n.isPod)
             patchedPeople == [i \in 1..Len(persons) |-> patchPerson(hn, persons[i])]
         IN  podGroupNodes \o patchedPeople

\* the node list the render effect hands to the chart
dataToRender(rws, mode) ==
    LET np == normalizedPeople(people(rws))
        hn == hierarchyNodes(np)
    IN  IF mode = "pod" THEN podNodes(mode, hn, idsByPod(np), rootId(np)) ELSE hn

-----------------------------------------------------------------------------
(* The per-manager pod variant of the page (src/unnamed/part_004).  Its    *)
(* definitions carry the prefix pm_; its view modes are "hierarchy" and    *)
(* "pods".                                                                 *)

\* r[k] || ""
field(r, k) == IF k \in DOMAIN r THEN r[k] ELSE <<>>

IsSafeChar(c) == c \in {"a", "b", "c", "e", "g", "n", "x", "y", "0", "1", "-", "_"}

\* .replace(/\s+/g, "-")
RECURSIVE dashSpaces(_)
dashSpaces(s) ==
    IF s = <<>> THEN <<>>
    ELSE IF Head(s) = " " THEN <<"-">> \o dashSpaces(trimStart(s))
    ELSE <<Head(s)>> \o dashSpaces(Tail(s))

safeKey(s) == SelectSeq(dashSpaces(toLowerCase(trim(s))), IsSafeChar)

pm_personOf(r, i) ==
    LET workEmail == trim(field(r, "Work Email"))
        name == trim(field(r, "Name"))
        id == IF workEmail # <<>> THEN normalizeEmail(workEmail)
              ELSE NamePrefix \o toLowerCase(name) \o <<":">> \o IndexStr(i)
        parentIdRaw == IF normalizeEmail(field(r, "Manager Email")) # <<>>
                       THEN normalizeEmail(field(r, "Manager Email")) ELSE Null
    IN  [type |-> "person",
         id |-> id,
         parentId |-> parentIdRaw,
         name |-> IF name # <<>> THEN name
                  ELSE IF workEmail # <<>> THEN workEmail ELSE NoName,
         email |-> workEmail,
         team |-> trim(field(r, "Team")),
         location |-> trim(field(r, "Location")),
         pod |-> trim(field(r, "Pod"))]

pm_basePeople(rws) == [i \in 1..Len(rws) |-> pm_personOf(rws[i], i - 1)]

pm_peopleWithValidParents(bp) ==
    LET ids == idSet(bp)
    IN  [i \in 1..Len(bp) |->
            [bp[i] EXCEPT !.parentId =
                IF bp[i].parentId # Null /\ bp[i].parentId \in ids
                THEN bp[i].parentId ELSE Null]]

\* the keys of the Map groups, in insertion order
RECURSIVE pm_groupKeys(_, _)
pm_groupKeys(children, keys) ==
    IF children = <<>> THEN keys
    ELSE LET pod == trim(Head(children).pod)
         IN  IF pod = <<>> \/ \E k \in 1..Len(keys) : keys[k] = pod
             THEN pm_groupKeys(Tail(children), keys)
             ELSE pm_groupKeys(Tail(children), Append(keys, pod))

RECURSIVE pm_flatten(_)
pm_flatten(ss) == IF ss = <<>> THEN <<>> ELSE Head(ss) \o pm_flatten(Tail(ss))

\* `${parentId ?? "root"}`
pm_parentKey(parentId) == IF parentId = Null THEN <<"r", "o", "o", "t">> ELSE parentId

pm_podId(parentId, podLabel) ==
    PodPrefix \o pm_parentKey(parentId) \o <<":">> \o safeKey(podLabel)

\* what one call processParent(parentId) pushes on rewrittenPeople and podNodes
pm_processParent(pv, parentId) ==
    LET children == SelectSeq(pv, LAMBDA p : p.parentId = parentId)
        noPod == SelectSeq(children, LAMBDA c : trim(c.pod) = <<>>)
        keys == pm_groupKeys(children, <<>>)
        members(k) == SelectSeq(children, LAMBDA c : trim(c.pod) = keys[k])
    IN  [people |->
            noPod \o pm_flatten([k \in 1..Len(keys) |->
                [m \in 1..Len(members(k)) |->
                    [members(k)[m] EXCEPT !.parentId = pm_podId(parentId, keys[k])]]]),
         pods |->
            [k \in 1..Len(keys) |->
                [type |-> "pod", id |-> pm_podId(parentId, keys[k]),
                 parentId |-> parentId, pod |-> keys[k], count |-> Len(members(k))]]]

\* the first node of each id, in order
RECURSIVE pm_firstOfEachId(_, _)
pm_firstOfEachId(ps, seen) ==
    IF ps = <<>> THEN <<>>
    ELSE IF Head(ps).id \in seen THEN pm_firstOfEachId(Tail(ps), seen)
    ELSE <<Head(ps)>> \o pm_firstOfEachId(Tail(ps), seen \cup {Head(ps).id})

pm_nodes(pv, mode) ==
    IF mode = "hierarchy" THEN pv
    ELSE LET parents == <<Null>> \o [i \in 1..Len(pv) |-> pv[i].id]
             calls == [k \in 1..Len(parents) |-> pm_processParent(pv, parents[k])]
             rewrittenPeople == pm_flatten([k \in 1..Len(calls) |-> calls[k].people])
             podNodes4 == pm_flatten([k \in 1..Len(calls) |-> calls[k].pods])
         IN  pm_firstOfEachId(rewrittenPeople, {}) \o podNodes4

pm_dataToRender(rws, mode) ==
    pm_nodes(pm_peopleWithValidParents(pm_basePeople(rws)), mode)

-----------------------------------------------------------------------------
(* Parsed CSVs the page is given *)

MaxRows == 2

EmailA == <<"a", "@", "x", ".", "c", "o", "m">>
EmailAUpper == <<"A", "@", "X", ".", "c", "o", "m", " ">>
EmailBUpper == <<"B", "@", "x", ".", "c", "o", "m", " ">>
MgrA == <<" ", "A", "@", "X", ".", "c", "o", "m">>
MgrB == <<"b", "@", "x", ".", "c", "o", "m">>
MgrC == <<"c", "@", "x", ".", "c", "o", "m">>

WorkEmails == {<<>>, EmailA, EmailBUpper}
ManagerEmails == {<<>>, MgrA, MgrB}
Pods == {<<>>, <<"X">>, <<"Y", " ">>}

FullRow(name, work, mgr, pod) ==
    ("Name" :> name) @@ ("Work Email" :> work) @@ ("Manager Email" :> mgr) @@
    ("Team" :> <<" ", "E", "n", "g">>) @@ ("Location" :> <<"I", "N">>) @@
    ("Pod" :> pod) @@ ("Photo URL" :> <<>>)

\* the two rows of the example of spec section 8
RowA == ("Name" :> <<"A">>) @@ ("Manager Email" :> <<>>)
RowB == ("Name" :> <<"B">>) @@ ("Manager Email" :> EmailA) @@ ("Work Email" :> EmailA)

RowSet ==
    {FullRow(<<"A">>, w, m, p) : w \in WorkEmails, m \in ManagerEmails, p \in Pods}
    \cup {RowA, RowB,
          \* the same work email in another case, a row without a Name
          \* whose manager is in no row, a row under the alias headers, a
          \* row cut short after the Name
          FullRow(<<"B", " ">>, EmailAUpper, <<>>, <<"X">>),
          FullRow(<<>>, <<>>, MgrC, <<"X">>),
          ("Name" :> <<"B">>) @@ ("Email" :> EmailBUpper) @@ ("Manager email" :> MgrA)
              @@ ("Country" :> <<"U", "K">>) @@ ("Pod" :> <<"X">>),
          ("Name" :> <<" ", "B">>),
          \* a sheet with both a Work Email and an Email column, the first
          \* left empty in this row
          ("Name" :> <<"B">>) @@ ("Work Email" :> <<>>) @@ ("Email" :> EmailA)
              @@ ("Manager Email" :> <<>>),
          \* a pod label that differs from X in letter case only
          FullRow(<<"B">>, EmailBUpper, <<>>, <<"x">>)}

RowLists == UNION {[1..n -> RowSet] : n \in 0..MaxRows}

-----------------------------------------------------------------------------
(* The page: rows is the parse result given to setRows *)

Secret == "s3cret"
NoFile == "<no file>"

MaxRequests == 2
MaxPuts == 3

Requests == 1..MaxRequests

IdlePost == [pc |-> "idle", file |-> NoFile, toDelete |-> {}, status |-> 0]

\* no blob, and the body of a response that has none
NoBlob == [url |-> "", uploadedAt |-> 0, content |-> NoFile]
IdleGet == [pc |-> "idle", latest |-> NoBlob, status |-> 0, body |-> NoFile]

StoreInit ==
    /\ blobs = {}
    /\ clock = 0
    /\ post = [r \in Requests |-> IdlePost]
    /\ completed = <<>>
    /\ overlapped = FALSE
    /\ get = IdleGet

\* the page at mount: no error, the initial fetch sent, no upload
IdleFetch == [pc |-> "sent", latest |-> NoBlob, status |-> 0, text |-> NoFile]
IdleUpload == [pc |-> "idle", file |-> NoFile, n |-> 0,
               latest |-> NoBlob, status |-> 0, text |-> NoFile]

\* no descendant count computed yet
IdleCounts == [pc |-> "idle", i |-> 0, stack |-> <<>>, memo |-> <<>>, out |-> <<>>]

\* lines 59-60: nothing drawn, chartObjRef.current null
RenderInit ==
    /\ effects = <<>>
    /\ container = <<>>
    /\ chartObjRef = 0
    /\ mounted = TRUE
    /\ dfs = IdleCounts

ClientInit ==
    /\ error = <<>>
    /\ load = IdleFetch
    /\ upload = IdleUpload
    /\ raced = FALSE

Init ==
    /\ ClientInit
    /\ RenderInit
    /\ rows \in RowLists
    /\ viewMode = "hierarchy"
    /\ chartData = <<>>
    /\ effectPending = TRUE
    /\ adminPassword = Secret
    /\ StoreInit

\* the render effect: it runs after a commit that changed its dependencies
RenderEffect ==
    /\ effectPending
    /\ chartData' = dataToRender(rows, viewMode)
    /\ effectPending' = FALSE
    /\ UNCHANGED <<rows, viewMode, renderVars, countVars, storeVars, clientVars>>

setTab(mode) ==
    /\ viewMode' = mode
    /\ effectPending' = (effectPending \/ mode # viewMode)
    /\ UNCHANGED <<rows, chartData, renderVars, countVars, storeVars, clientVars>>

Next ==
    \/ RenderEffect
    \/ \E mode \in {"hierarchy", "pod"} : setTab(mode)

Spec == Init /\ [][Next]_vars

-----------------------------------------------------------------------------
(* The page of src/unnamed/part_004 over the same state *)

pm_RenderEffect ==
    /\ effectPending
    /\ chartData' = pm_dataToRender(rows, viewMode)
    /\ effectPending' = FALSE
    /\ UNCHANGED <<rows, viewMode, renderVars, countVars, storeVars, clientVars>>

pm_setViewMode(mode) ==
    /\ viewMode' = mode
    /\ effectPending' = (effectPending \/ mode # viewMode)
    /\ UNCHANGED <<rows, chartData, renderVars, countVars, storeVars, clientVars>>

pm_Next ==
    \/ pm_RenderEffect
    \/ \E mode \in {"hierarchy", "pods"} : pm_setViewMode(mode)

SpecPerManager == Init /\ [][pm_Next]_vars

-----------------------------------------------------------------------------
(* The route handler POST /org (src/unnamed/part_000, lines 22-51) over    *)
(* the hosted blob store.  The handler is async: each await (list, every   *)
(* del, put) is a step other requests interleave with.  The store keeps    *)
(* blobs by url.  The handler itself treats the prefix as able to hold     *)
(* several blobs (GET takes the greatest uploadedAt, POST deletes every    *)
(* listed blob), so put stores the file under some url of the prefix: one  *)
(* in use, whose blob it replaces, or another one; or, with a blob already *)
(* there, the store refuses the put.                                       *)

Urls == {"org.csv#1", "org.csv#2"}
Files == {"csvA", "csvB"}
Passwords == {"", Secret, "wrong"}

InProgress(r) == post[r].pc # "idle"

\* form.get("file") of a form whose field "file" is a text field
TextField == "<text field>"

\* line 36: file instanceof File
IsFile(file) == file \notin {NoFile, TextField}

\* lines 22-38 on the store's side: the three checks, then the handler goes
\* on to list
PostChecks(r, provided, file) ==
    /\ post[r].pc = "idle"
    /\ IF adminPassword = ""
       THEN post' = [post EXCEPT ![r] = [IdlePost EXCEPT !.status = 500]]
       ELSE IF provided # adminPassword
       THEN post' = [post EXCEPT ![r] = [IdlePost EXCEPT !.status = 401]]
       ELSE IF ~IsFile(file)
       THEN post' = [post EXCEPT ![r] = [IdlePost EXCEPT !.status = 400]]
       ELSE post' = [post EXCEPT ![r] =
                        [pc |-> "list", file |-> file, toDelete |-> {}, status |-> 0]]
    /\ overlapped' = (overlapped \/ (post'[r].pc = "list" /\ \E q \in Requests : InProgress(q)))
    /\ UNCHANGED <<adminPassword, blobs, clock, completed, getVars>>

\* the three checks with the file looked at before the password
PostReceive_FileFirst(r, provided, file) ==
    /\ post[r].pc = "idle"
    /\ IF adminPassword = ""
       THEN post' = [post EXCEPT ![r] = [IdlePost EXCEPT !.status = 500]]
       ELSE IF ~IsFile(file)
       THEN post' = [post EXCEPT ![r] = [IdlePost EXCEPT !.status = 400]]
       ELSE IF provided # adminPassword
       THEN post' = [post EXCEPT ![r] = [IdlePost EXCEPT !.status = 401]]
       ELSE post' = [post EXCEPT ![r] =
                        [pc |-> "list", file |-> file, toDelete |-> {}, status |-> 0]]
    /\ overlapped' = (overlapped \/ (post'[r].pc = "list" /\ \E q \in Requests : InProgress(q)))
    /\ UNCHANGED <<adminPassword, blobs, clock, completed, getVars, pageVars, clientVars>>

\* lines 22-38: the three checks, then the handler goes on to list
PostReceive(r, provided, file) ==
    /\ PostChecks(r, provided, file)
    /\ UNCHANGED <<pageVars, clientVars>>

\* line 41: list({ prefix: FILE_KEY })
PostList(r) ==
    /\ post[r].pc = "list"
    /\ post' = [post EXCEPT ![r].toDelete = {b.url : b \in blobs},
                            ![r].pc = IF blobs = {} THEN "put" ELSE "del"]
    /\ UNCHANGED <<adminPassword, blobs, clock, completed, overlapped, getVars, pageVars, clientVars>>

\* the loop with the del left out
PostDel_KeepBlob(r) ==
    /\ post[r].pc = "del"
    /\ \E u \in post[r].toDelete :
          /\ blobs' = blobs
          /\ post' = [post EXCEPT ![r].toDelete = @ \ {u},
                                  ![r].pc = IF post[r].toDelete = {u} THEN "put" ELSE "del"]
    /\ UNCHANGED <<adminPassword, clock, completed, overlapped, getVars, pageVars, clientVars>>

\* line 42: one del(b.url) of the loop over the listed blobs
PostDel(r) ==
    /\ post[r].pc = "del"
    /\ \E u \in post[r].toDelete :
          /\ blobs' = {b \in blobs : b.url # u}
          /\ post' = [post EXCEPT ![r].toDelete = @ \ {u},
                                  ![r].pc = IF post[r].toDelete = {u} THEN "put" ELSE "del"]
    /\ UNCHANGED <<adminPassword, clock, completed, overlapped, getVars, pageVars, clientVars>>

\* the put answering without the blob stored
PostPut_NoStore(r) ==
    /\ post[r].pc = "put"
    /\ clock < MaxPuts
    /\ blobs' = blobs
    /\ clock' = clock + 1
    /\ post' = [post EXCEPT ![r].pc = "return"]
    /\ UNCHANGED <<adminPassword, completed, overlapped, getVars, pageVars, clientVars>>

\* lines 44-48: put(FILE_KEY, buf, ...)
PostPut(r) ==
    /\ post[r].pc = "put"
    /\ clock < MaxPuts
    /\ \E u \in Urls :
          blobs' = {b \in blobs : b.url # u}
                   \cup {[url |-> u, uploadedAt |-> clock + 1, content |-> post[r].file]}
    /\ clock' = clock + 1
    /\ post' = [post EXCEPT ![r].pc = "return"]
    /\ UNCHANGED <<adminPassword, completed, overlapped, getVars, pageVars, clientVars>>

\* line 45 when the store refuses a put on a url in use: put throws, the
\* handler has no catch and the request is answered 500
PostPutRejected(r) ==
    /\ post[r].pc = "put"
    /\ blobs # {}
    /\ post' = [post EXCEPT ![r] = [IdlePost EXCEPT !.status = 500]]
    /\ UNCHANGED <<adminPassword, blobs, clock, completed, overlapped, getVars, pageVars, clientVars>>

\* line 50: the 200 answer
PostReturn(r) ==
    /\ post[r].pc = "return"
    /\ post' = [post EXCEPT ![r] = [IdlePost EXCEPT !.status = 200]]
    /\ completed' = Append(completed, post[r].file)
    /\ UNCHANGED <<adminPassword, blobs, clock, overlapped, getVars, pageVars, clientVars>>

-----------------------------------------------------------------------------
(* The route handler GET /org (src/unnamed/part_000, lines 6-20): list,    *)
(* then fetch of the newest listed blob's url; POST steps interleave       *)
(* between the two awaits.  One GET is followed at a time.                 *)

\* what the blob host answers for a url that holds no blob
NotFoundBody == "<blob not found>"

\* line 13 sorting oldest first
Latest_Oldest(listed) == CHOOSE b \in listed : \A c \in listed : b.uploadedAt <= c.uploadedAt

\* line 13: blobs.sort(newest first)[0]
Latest(listed) == CHOOSE b \in listed : \A c \in listed : b.uploadedAt >= c.uploadedAt

\* lines 14-15: what fetch(latest.url) and res.text() can give
FetchTexts(latest) ==
    IF \E b \in blobs : b.url = latest.url
    THEN {b.content : b \in {c \in blobs : c.url = latest.url}}
    ELSE {NotFoundBody, latest.content}

\* lines 7-13: list; 404 on an empty list, else the newest blob is picked
GetList ==
    /\ get.pc = "idle"
    /\ IF blobs = {}
       THEN get' = [IdleGet EXCEPT !.status = 404]
       ELSE get' = [pc |-> "fetch", latest |-> Latest(blobs), status |-> 0, body |-> NoFile]
    /\ UNCHANGED <<adminPassword, blobs, clock, post, completed, overlapped, pageVars, clientVars>>

\* lines 14-19: fetch(latest.url) and the answer with its text, whatever the
\* fetch answered (res.ok is not looked at).  A url whose blob was deleted
\* answers not found, or its old content while the host still caches it.
GetFetch ==
    /\ get.pc = "fetch"
    /\ \E text \in FetchTexts(get.latest) :
          get' = [get EXCEPT !.pc = "idle", !.status = 200, !.body = text]
    /\ UNCHANGED <<adminPassword, blobs, clock, post, completed, overlapped, pageVars, clientVars>>

\* what form.get("file") can be: a file, nothing, or a text field
FormFiles == Files \cup {NoFile, TextField}

InitStore ==
    /\ ClientInit
    /\ RenderInit
    /\ rows = <<>>
    /\ viewMode = "hierarchy"
    /\ chartData = <<>>
    /\ effectPending = TRUE
    /\ adminPassword \in {"", Secret}
    /\ StoreInit

NextStore ==
    \/ \E r \in Requests, provided \in Passwords, file \in FormFiles :
          PostReceive(r, provided, file)
    \/ \E r \in Requests : PostList(r)
    \/ \E r \in Requests : PostDel(r)
    \/ \E r \in Requests : PostPut(r)
    \/ \E r \in Requests : PostPutRejected(r)
    \/ \E r \in Requests : PostReturn(r)

SpecStore == InitStore /\ [][NextStore]_vars

\* GET /org beside uploads that pass the three checks
InitGet ==
    /\ ClientInit
    /\ RenderInit
    /\ rows = <<>>
    /\ viewMode = "hierarchy"
    /\ chartData = <<>>
    /\ effectPending = TRUE
    /\ adminPassword = Secret
    /\ StoreInit

NextGet ==
    \/ \E r \in Requests, file \in Files : PostReceive(r, Secret, file)
    \/ \E r \in Requests : PostList(r)
    \/ \E r \in Requests : PostDel(r)
    \/ \E r \in Requests : PostPut(r)
    \/ \E r \in Requests : PostPutRejected(r)
    \/ \E r \in Requests : PostReturn(r)
    \/ GetList
    \/ GetFetch

SpecGet == InitGet /\ [][NextGet]_vars

-----------------------------------------------------------------------------
(* The page of src/app/page.tsx as a client of the route handlers: the     *)
(* initial fetch of /api/org (lines 93-110), the file input (lines         *)
(* 507-526) and uploadCsvToServer (lines 245-271).  A CSV text is named by *)
(* its file; CsvHeader and CsvLines give its header row and its data       *)
(* lines, each a list of cells.  The page's requests are served by the     *)
(* handlers above; the page follows one upload at a time.                  *)

Header7 == <<"Name", "Work Email", "Manager Email", "Team", "Location", "Pod", "Photo URL">>
HeaderNoTeam == <<"Name", "Work Email", "Manager Email", "Location", "Pod", "Photo URL">>

HeaderFullName == <<"Full Name", "Work Email", "Manager Email", "Team", "Location", "Pod", "Photo URL">>

\* the body of the 404 answer of GET (part_000 line 10)
NoCsvBody == "No org.csv uploaded yet."

\* the files the user can pick: the two CSVs, a CSV without a Team column,
\* and a text file
LocalFiles == Files \cup {"csvNoTeam", "txtA"}

FileName(file) ==
    CASE file = "csvA" -> <<"a", ".", "c", "s", "v">>
      [] file = "csvB" -> <<"b", ".", "C", "s", "v">>
      [] file = "txtA" -> <<"a", ".", "t", "x", "t">>
      [] OTHER -> <<"c", ".", "c", "s", "v">>

\* a text that is no CSV of ours (an error body) is one header cell
CsvHeader(text) ==
    CASE text \in {"csvA", "csvB", "txtA", "csvRagged"} -> Header7
      [] text = "csvNoTeam" -> HeaderNoTeam
      [] text = "csvNoName" -> HeaderFullName
      [] text = "csvBlankName" -> Header7
      [] OTHER -> <<text>>

CsvLines(text) ==
    CASE text = "csvA" ->
            <<<<<<"A">>, EmailA, <<>>, <<"E", "n", "g">>, <<"I", "N">>, <<"X">>, <<>>>>>>
      [] text = "csvB" ->
            <<<<<<"A">>, EmailA, <<>>, <<"E", "n", "g">>, <<"I", "N">>, <<>>, <<>>>>,
              <<<<>>>>,
              <<<<"B">>, EmailBUpper, MgrA, <<"E", "n", "g">>, <<"I", "N">>, <<"X">>, <<>>>>>>
      [] text = "csvNoTeam" ->
            <<<<<<"A">>, EmailA, <<>>, <<"I", "N">>, <<"X">>, <<>>>>>>
      [] text = "csvNoName" ->
            <<<<<<"A">>, EmailA, <<>>, <<"E", "n", "g">>, <<"I", "N">>, <<"X">>, <<>>>>,
              <<<<" ">>, EmailBUpper, MgrA, <<"E", "n", "g">>, <<"I", "N">>, <<"X">>, <<>>>>,
              <<<<>>, <<>>, MgrA, <<"E", "n", "g">>, <<"I", "N">>, <<>>, <<>>>>>>
      [] text = "csvBlankName" ->
            <<<<<<"A">>, EmailA, <<>>, <<"E", "n", "g">>, <<"I", "N">>, <<"X">>, <<>>>>,
              <<<<" ">>, EmailBUpper, MgrA, <<"E", "n", "g">>, <<"I", "N">>, <<"X">>, <<>>>>,
              <<<<>>, <<>>, MgrA, <<"E", "n", "g">>, <<"I", "N">>, <<>>, <<>>>>>>
      [] text = "csvRagged" ->
            <<<<<<>>, EmailA, <<>>, <<"E", "n", "g">>, <<"I", "N">>, <<"X">>, <<>>>>,
              <<<<"B">>, EmailBUpper>>>>
      [] text = "txtA" -> <<>>
      [] OTHER -> <<>>

Min(a, b) == IF a < b THEN a ELSE b

\* Papa.parse(text, { header: true, skipEmptyLines: true }).data
papaParse(text) ==
    LET h == CsvHeader(text)
        kept == SelectSeq(CsvLines(text), LAMBDA l : l # <<<<>>>>)
    IN  [i \in 1..Len(kept) |->
            [k \in {h[j] : j \in 1..Min(Len(h), Len(kept[i]))} |->
                kept[i][CHOOSE j \in 1..Len(h) : h[j] = k]]]

\* lines 49-54
Required == <<"Name", "Work Email", "Manager Email", "Team", "Location", "Photo URL">>

\* requiredColsMissing with Team not among the required columns
requiredColsMissing_TeamOptional(headers) ==
    SelectSeq(Required,
              LAMBDA c : c # "Team" /\ c \notin {headers[j] : j \in 1..Len(headers)})

requiredColsMissing(headers) ==
    SelectSeq(Required, LAMBDA c : c \notin {headers[j] : j \in 1..Len(headers)})

\* Array.prototype.join, as the list of the pieces of the string
RECURSIVE join(_, _)
join(list, sep) ==
    IF list = <<>> THEN <<>>
    ELSE IF Len(list) = 1 THEN list
    ELSE <<Head(list), sep>> \o join(Tail(list), sep)

endsWith(str, suffix) ==
    /\ Len(str) >= Len(suffix)
    /\ SubSeq(str, Len(str) - Len(suffix) + 1, Len(str)) = suffix

\* the text of a failed POST's answer
ErrorBody(status) ==
    CASE status = 401 -> "{\"error\":\"Unauthorized\"}"
      [] status = 400 -> "{\"error\":\"Missing file\"}"
      [] OTHER -> "{\"error\":\"ADMIN_PASSWORD not set\"}"

MaxUploads == 2

\* the file input with onLocalFileCheck left out
FileSelected_NoHeaderCheck(file, pw) ==
    /\ upload.pc = "idle"
    /\ IF ~endsWith(toLowerCase(FileName(file)), <<".", "c", "s", "v">>)
       THEN /\ error' = <<"Please upload a .csv file.">>
            /\ UNCHANGED <<upload, raced, storeVars>>
       ELSE IF pw = ""
       THEN /\ error' = <<>>
            /\ UNCHANGED <<upload, raced, storeVars>>
       ELSE /\ upload.n < MaxUploads
            /\ error' = <<>>
            /\ PostChecks(1, pw, file)
            /\ upload' = [upload EXCEPT !.pc = "post", !.file = file, !.n = @ + 1]
            /\ raced' = (raced \/ load.pc # "done")
    /\ UNCHANGED <<pageVars, load>>

\* lines 507-526, 449-456 and 245-258: a file is picked; its name and header
\* are checked; uploadCsvToServer clears the error, asks for the password
\* and sends the POST, whose handler starts
FileSelected(file, pw) ==
    /\ upload.pc = "idle"
    /\ IF ~endsWith(toLowerCase(FileName(file)), <<".", "c", "s", "v">>)
       THEN /\ error' = <<"Please upload a .csv file.">>
            /\ UNCHANGED <<upload, raced, storeVars>>
       ELSE IF requiredColsMissing(CsvHeader(file)) # <<>>
       THEN /\ error' = <<"Missing required columns: ">>
                           \o join(requiredColsMissing(CsvHeader(file)), ", ")
            /\ UNCHANGED <<upload, raced, storeVars>>
       ELSE IF pw = ""
       THEN /\ error' = <<>>
            /\ UNCHANGED <<upload, raced, storeVars>>
       ELSE /\ upload.n < MaxUploads
            /\ error' = <<>>
            /\ PostChecks(1, pw, file)
            /\ upload' = [upload EXCEPT !.pc = "post", !.file = file, !.n = @ + 1]
            /\ raced' = (raced \/ load.pc # "done")
    /\ UNCHANGED <<pageVars, load>>

\* the POST is answered and the fetch follows whatever the status
UploadAnswered_FetchAnyway ==
    /\ upload.pc = "post"
    /\ post[1].pc = "idle"
    /\ IF post[1].status # 200
       THEN /\ error' = <<"Upload failed: ", ErrorBody(post[1].status)>>
            /\ upload' = [upload EXCEPT !.pc = "sent"]
       ELSE /\ upload' = [upload EXCEPT !.pc = "sent"]
            /\ error' = error
    /\ UNCHANGED <<pageVars, storeVars, load, raced>>

\* lines 254-263: the POST is answered
UploadAnswered ==
    /\ upload.pc = "post"
    /\ post[1].pc = "idle"
    /\ IF post[1].status # 200
       THEN /\ error' = <<"Upload failed: ", ErrorBody(post[1].status)>>
            /\ upload' = [upload EXCEPT !.pc = "idle"]
       ELSE /\ upload' = [upload EXCEPT !.pc = "sent"]
            /\ error' = error
    /\ UNCHANGED <<pageVars, storeVars, load, raced>>

\* GET /org (part_000 lines 7-13) serving a fetch of the page
Listed(f) ==
    IF blobs = {}
    THEN [f EXCEPT !.pc = "answered", !.status = 404, !.text = NoCsvBody]
    ELSE [f EXCEPT !.pc = "fetch", !.latest = Latest(blobs)]

\* GET /org (part_000 lines 14-19) serving a fetch of the page
Fetched(f, text) == [f EXCEPT !.pc = "answered", !.status = 200, !.text = text]

LoadList ==
    /\ load.pc = "sent"
    /\ load' = Listed(load)
    /\ UNCHANGED <<pageVars, storeVars, error, upload, raced>>

LoadFetch ==
    /\ load.pc = "fetch"
    /\ \E text \in FetchTexts(load.latest) : load' = Fetched(load, text)
    /\ UNCHANGED <<pageVars, storeVars, error, upload, raced>>

\* lines 95-109: the answer of the initial fetch; an answer that is not ok
\* is thrown and caught, another is parsed and given to setRows
LoadAnswered ==
    /\ load.pc = "answered"
    /\ load' = [load EXCEPT !.pc = "done"]
    /\ IF load.status = 200
       THEN rows' = papaParse(load.text) /\ effectPending' = TRUE
       ELSE UNCHANGED <<rows, effectPending>>
    /\ UNCHANGED <<viewMode, chartData, renderVars, countVars, storeVars, error, upload, raced>>

ReloadList ==
    /\ upload.pc = "sent"
    /\ upload' = Listed(upload)
    /\ UNCHANGED <<pageVars, storeVars, error, load, raced>>

ReloadFetch ==
    /\ upload.pc = "fetch"
    /\ \E text \in FetchTexts(upload.latest) : upload' = Fetched(upload, text)
    /\ UNCHANGED <<pageVars, storeVars, error, load, raced>>

\* the fetch after the upload with its setRows left out
ReloadAnswered_NoSetRows ==
    /\ upload.pc = "answered"
    /\ upload' = [upload EXCEPT !.pc = "idle"]
    /\ UNCHANGED <<rows, effectPending>>
    /\ UNCHANGED <<viewMode, chartData, renderVars, countVars, storeVars, error, load, raced>>

\* lines 265-270: the text of the fetch after the upload, whatever its
\* status, is parsed and given to setRows
ReloadAnswered ==
    /\ upload.pc = "answered"
    /\ upload' = [upload EXCEPT !.pc = "idle"]
    /\ rows' = papaParse(upload.text)
    /\ effectPending' = TRUE
    /\ UNCHANGED <<viewMode, chartData, renderVars, countVars, storeVars, error, load, raced>>

InitClient ==
    /\ ClientInit
    /\ RenderInit
    /\ rows = <<>>
    /\ viewMode = "hierarchy"
    /\ chartData = <<>>
    /\ effectPending = TRUE
    /\ adminPassword \in {"", Secret}
    /\ StoreInit

NextClient ==
    \/ \E file \in LocalFiles, pw \in Passwords : FileSelected(file, pw)
    \/ UploadAnswered
    \/ \E r \in Requests : PostList(r)
    \/ \E r \in Requests : PostDel(r)
    \/ \E r \in Requests : PostPut(r)
    \/ \E r \in Requests : PostReturn(r)
    \/ LoadList
    \/ LoadFetch
    \/ LoadAnswered
    \/ ReloadList
    \/ ReloadFetch
    \/ ReloadAnswered
    \/ RenderEffect

SpecClient == InitClient /\ [][NextClient]_vars

-----------------------------------------------------------------------------
(* The page of src/unnamed/part_005 as a client of the same route          *)
(* handlers.  It validates the text it fetches with parseCsvTextToRows     *)
(* (lines 61-92) and has no header check before the upload.  Its           *)
(* definitions carry the prefix pt_ where the name is taken.  Its status   *)
(* line (setStatus) is left out: nothing reads it.                         *)

HEADER_ALIASES ==
    ("Name" :> <<"Name", "Full Name">>) @@
    ("Work Email" :> <<"Work Email", "Email", "Work email">>) @@
    ("Manager Email" :> <<"Manager Email", "Manager email", "Reports To Email",
                          "Manager Email Address">>) @@
    ("Team" :> <<"Team", "Department">>) @@
    ("Location" :> <<"Location", "Country", "Office", "Country/Location">>) @@
    ("Photo URL" :> <<"Photo URL", "Photo", "PhotoURL", "Image", "Image URL">>) @@
    ("Pod" :> <<"Pod", "POD", "Product Pod", "Squad">>)

\* lines 54-59: k in obj
pickField(obj, keys) ==
    LET i == firstPresent(obj, keys, 1)
    IN  IF i = 0 THEN <<>> ELSE obj[keys[i]]

\* parsed.errors of Papa.parse: a text without a delimiter to detect, and
\* each kept line whose number of fields is not the header's
papaErrors(text) ==
    LET h == CsvHeader(text)
        kept == SelectSeq(CsvLines(text), LAMBDA l : l # <<<<>>>>)
        ragged == SelectSeq(kept, LAMBDA l : Len(l) # Len(h))
    IN  IF Len(h) = 1
        THEN <<"Unable to auto-detect delimiting character; defaulted to ','">>
        ELSE [i \in 1..Len(ragged) |->
                 IF Len(ragged[i]) < Len(h) THEN "Too few fields" ELSE "Too many fields"]

\* lines 72-84
pt_mapped(r) ==
    [k \in DOMAIN HEADER_ALIASES |-> trim(pickField(r, HEADER_ALIASES[k]))]

\* lines 61-92 naming the row one too low
parseCsvTextToRows_RowPlusOne(text) ==
    LET errors == papaErrors(text)
        data == papaParse(text)
        mappedRows == [i \in 1..Len(data) |-> pt_mapped(data[i])]
        empty == {i \in 1..Len(mappedRows) : mappedRows[i]["Name"] = <<>>}
    IN  IF errors # <<>> THEN [rows |-> <<>>, error |-> <<errors[1]>>]
        ELSE IF empty # {}
        THEN LET i == CHOOSE j \in empty : \A k \in empty : j <= k
             IN  [rows |-> <<>>,
                  error |-> <<"Row ", IndexStr(i)[1], ": Name is empty">>]
        ELSE [rows |-> mappedRows, error |-> <<>>]

\* lines 61-92; i counts from 1 here, so Row ${i + 2} of the code is i + 1
parseCsvTextToRows(text) ==
    LET errors == papaErrors(text)
        data == papaParse(text)
        mappedRows == [i \in 1..Len(data) |-> pt_mapped(data[i])]
        empty == {i \in 1..Len(mappedRows) : mappedRows[i]["Name"] = <<>>}
    IN  IF errors # <<>> THEN [rows |-> <<>>, error |-> <<errors[1]>>]
        ELSE IF empty # {}
        THEN LET i == CHOOSE j \in empty : \A k \in empty : j <= k
             IN  [rows |-> <<>>,
                  error |-> <<"Row ", IndexStr(i + 1)[1], ": Name is empty">>]
        ELSE [rows |-> mappedRows, error |-> <<>>]

\* the files the user can pick here
pt_LocalFiles == Files \cup {"csvNoName", "csvRagged", "txtA"}

\* lines 431-443 and 381-393: a file is picked; only its name is checked;
\* uploadCsvToServer clears the error, asks for the password and sends the
\* POST, whose handler starts
pt_FileSelected(file, pw) ==
    /\ upload.pc = "idle"
    /\ IF ~endsWith(toLowerCase(FileName(file)), <<".", "c", "s", "v">>)
       THEN /\ error' = <<"Please upload a .csv file.">>
            /\ UNCHANGED <<upload, raced, storeVars>>
       ELSE IF pw = ""
       THEN /\ error' = <<>>
            /\ UNCHANGED <<upload, raced, storeVars>>
       ELSE /\ upload.n < MaxUploads
            /\ error' = <<>>
            /\ PostChecks(1, pw, file)
            /\ upload' = [upload EXCEPT !.pc = "post", !.file = file, !.n = @ + 1]
            /\ raced' = (raced \/ load.pc # "done")
    /\ UNCHANGED <<pageVars, load>>

\* lines 395-405: the POST is answered
pt_UploadAnswered ==
    /\ upload.pc = "post"
    /\ post[1].pc = "idle"
    /\ IF post[1].status # 200
       THEN /\ error' = <<"Upload failed: ", ErrorBody(post[1].status)>>
            /\ upload' = [upload EXCEPT !.pc = "idle"]
       ELSE /\ upload' = [upload EXCEPT !.pc = "sent"]
            /\ error' = error
    /\ UNCHANGED <<pageVars, storeVars, load, raced>>

\* lines 116-134: the answer of the initial fetch
pt_LoadAnswered ==
    /\ load.pc = "answered"
    /\ load' = [load EXCEPT !.pc = "done"]
    /\ IF load.status = 200
       THEN LET res == parseCsvTextToRows(load.text)
            IN  /\ error' = res.error
                /\ rows' = res.rows
                /\ effectPending' = TRUE
       ELSE UNCHANGED <<rows, effectPending, error>>
    /\ UNCHANGED <<viewMode, chartData, renderVars, countVars, storeVars, upload, raced>>

\* lines 407-420: the text of the fetch after the upload; when it parses the
\* error is left as uploadCsvToServer cleared it
pt_ReloadAnswered ==
    /\ upload.pc = "answered"
    /\ upload' = [upload EXCEPT !.pc = "idle"]
    /\ LET parsed == parseCsvTextToRows(upload.text)
       IN  /\ error' = IF parsed.error # <<>> THEN parsed.error ELSE error
           /\ rows' = parsed.rows
           /\ effectPending' = TRUE
    /\ UNCHANGED <<viewMode, chartData, renderVars, countVars, storeVars, load, raced>>

pt_Next ==
    \/ \E file \in pt_LocalFiles, pw \in Passwords : pt_FileSelected(file, pw)
    \/ pt_UploadAnswered
    \/ \E r \in Requests : PostList(r)
    \/ \E r \in Requests : PostDel(r)
    \/ \E r \in Requests : PostPut(r)
    \/ \E r \in Requests : PostReturn(r)
    \/ LoadList
    \/ LoadFetch
    \/ pt_LoadAnswered
    \/ ReloadList
    \/ ReloadFetch
    \/ pt_ReloadAnswered

SpecParsed == InitClient /\ [][pt_Next]_vars

-----------------------------------------------------------------------------
(* The page of src/unnamed/part_000 (lines 53-400) as a client of the same *)
(* route handlers.  Its initial load checks the header and the Name of     *)
(* each row inside the complete callback of Papa.parse (lines 137-197);    *)
(* its upload reloads the page (lines 337-366).  Its definitions carry the *)
(* prefix nv_ where the name is taken.                                     *)

\* lines 88-96
nv_HEADER_ALIASES ==
    [name |-> <<"Name">>,
     workEmail |-> <<"Work Email", "WorkEmail", "Work_Email">>,
     managerEmail |-> <<"Manager Email", "ManagerEmail", "Manager_Email">>,
     team |-> <<"Team">>,
     location |-> <<"Location", "Country">>,
     photoUrl |-> <<"Photo URL", "PhotoURL", "Photo_Url", "Photo">>,
     pod |-> <<"Pod", "POD">>]

\* lines 79-85: a cell of a parsed row is a string, never undefined or null
nv_pick(row, keys) ==
    LET i == firstPresent(row, keys, 1)
    IN  IF i = 0 THEN <<>> ELSE row[keys[i]]

\* lines 100-116: the labels of the groups none of whose aliases is a header
requiredHeaderMissing(headers) ==
    LET set == {headers[j] : j \in 1..Len(headers)}
        needGroups == <<[label |-> "Name", aliases |-> nv_HEADER_ALIASES.name],
                        [label |-> "Manager Email", aliases |-> nv_HEADER_ALIASES.managerEmail],
                        [label |-> "Team", aliases |-> nv_HEADER_ALIASES.team],
                        [label |-> "Location", aliases |-> nv_HEADER_ALIASES.location],
                        [label |-> "Photo URL", aliases |-> nv_HEADER_ALIASES.photoUrl]>>
        missing == SelectSeq(needGroups,
                             LAMBDA g : ~\E j \in 1..Len(g.aliases) : g.aliases[j] \in set)
    IN  [j \in 1..Len(missing) |-> missing[j].label]

startsWith(str, prefix) ==
    /\ Len(str) >= Len(prefix)
    /\ SubSeq(str, 1, Len(prefix)) = prefix

\* lines 72-77
ensureHttps(url) ==
    LET u == trim(url)
    IN  IF u = <<>> THEN <<>>
        ELSE IF \/ startsWith(u, <<"h", "t", "t", "p", ":", "/", "/">>)
                \/ startsWith(u, <<"h", "t", "t", "p", "s", ":", "/", "/">>)
        THEN u
        ELSE <<"h", "t", "t", "p", "s", ":", "/", "/">> \o u

\* encodeURIComponent on the characters of the names used here: a letter is
\* kept, a space becomes %20
RECURSIVE encodeURIComponent(_)
encodeURIComponent(s) ==
    IF s = <<>> THEN <<>>
    ELSE (IF Head(s) = " " THEN <<"%", "2", "0">> ELSE <<Head(s)>>)
         \o encodeURIComponent(Tail(s))

\* lines 159-185: the row a data row is mapped to once its Name is there
nv_normalizedRow(r) ==
    LET name == trim(nv_pick(r, nv_HEADER_ALIASES.name))
        photoUrl == ensureHttps(trim(nv_pick(r, nv_HEADER_ALIASES.photoUrl)))
    IN  [name |-> name,
         workEmail |-> trim(nv_pick(r, nv_HEADER_ALIASES.workEmail)),
         managerEmail |-> trim(nv_pick(r, nv_HEADER_ALIASES.managerEmail)),
         team |-> trim(nv_pick(r, nv_HEADER_ALIASES.team)),
         pod |-> trim(nv_pick(r, nv_HEADER_ALIASES.pod)),
         location |-> trim(nv_pick(r, nv_HEADER_ALIASES.location)),
         photoUrl |-> IF photoUrl # <<>> THEN photoUrl
                      ELSE <<"https://ui-avatars.com/api/?background=eee&color=555&name=">>
                           \o encodeURIComponent(name)]

\* lines 160-163: the data rows at which the map throws, counted from 1
nv_nameless(data) ==
    {i \in 1..Len(data) : trim(nv_pick(data[i], nv_HEADER_ALIASES.name)) = <<>>}

\* the files the user can pick here
nv_LocalFiles == Files \cup {"csvBlankName", "csvNoTeam", "txtA"}

\* lines 379-387 and 337-350: a file is picked; only its name is checked;
\* uploadCsvToServer clears the error, asks for the password and sends the
\* POST, whose handler starts
nv_FileSelected(file, pw) ==
    /\ upload.pc = "idle"
    /\ IF ~endsWith(toLowerCase(FileName(file)), <<".", "c", "s", "v">>)
       THEN /\ error' = <<"Please upload a .csv file.">>
            /\ UNCHANGED <<upload, raced, storeVars>>
       ELSE IF pw = ""
       THEN /\ error' = <<>>
            /\ UNCHANGED <<upload, raced, storeVars>>
       ELSE /\ upload.n < MaxUploads
            /\ error' = <<>>
            /\ PostChecks(1, pw, file)
            /\ upload' = [upload EXCEPT !.pc = "post", !.file = file, !.n = @ + 1]
            /\ raced' = (raced \/ load.pc # "done")
    /\ UNCHANGED <<pageVars, load>>

\* lines 352-358: the POST is answered
nv_UploadAnswered ==
    /\ upload.pc = "post"
    /\ post[1].pc = "idle"
    /\ IF post[1].status # 200
       THEN /\ error' = <<"Upload failed: ", ErrorBody(post[1].status)>>
            /\ upload' = [upload EXCEPT !.pc = "idle"]
       ELSE /\ upload' = [upload EXCEPT !.pc = "sent"]
            /\ error' = error
    /\ UNCHANGED <<pageVars, storeVars, load, raced>>

\* lines 139-196: the answer of the initial fetch.  An answer that is not ok
\* is thrown and caught.  Another is parsed, from a string and so within
\* the call of Papa.parse, and complete runs inside the then callback: the
\* Error it throws for a row without a Name rejects the promise, and the
\* catch of line 194 drops it; the error option of Papa.parse is not called
\* for an exception of complete.
nv_LoadAnswered ==
    /\ load.pc = "answered"
    /\ load' = [load EXCEPT !.pc = "done"]
    /\ IF load.status # 200
       THEN UNCHANGED <<rows, effectPending, error>>
       ELSE LET missing == requiredHeaderMissing(CsvHeader(load.text))
                data == papaParse(load.text)
            IN  IF missing # <<>>
                THEN /\ error' = <<"CSV headers missing: ">> \o join(missing, ", ")
                                  \o <<". (Work Email header is optional)">>
                     /\ UNCHANGED <<rows, effectPending>>
                ELSE IF nv_nameless(data) # {}
                THEN UNCHANGED <<rows, effectPending, error>>
                ELSE /\ error' = <<>>
                     /\ rows' = [i \in 1..Len(data) |-> nv_normalizedRow(data[i])]
                     /\ effectPending' = TRUE
    /\ UNCHANGED <<viewMode, chartData, renderVars, countVars, storeVars, upload, raced>>

\* lines 358-362: the text of the fetch after the upload is parsed and
\* complete reloads the page, which mounts anew and sends its initial fetch
nv_ReloadAnswered ==
    /\ upload.pc = "answered"
    /\ upload' = [IdleUpload EXCEPT !.n = upload.n]
    /\ load' = IdleFetch
    /\ error' = <<>>
    /\ rows' = <<>>
    /\ viewMode' = "hierarchy"
    /\ chartData' = <<>>
    /\ effectPending' = TRUE
    /\ UNCHANGED <<renderVars, countVars, storeVars, raced>>

nv_Next ==
    \/ \E file \in nv_LocalFiles, pw \in Passwords : nv_FileSelected(file, pw)
    \/ nv_UploadAnswered
    \/ \E r \in Requests : PostList(r)
    \/ \E r \in Requests : PostDel(r)
    \/ \E r \in Requests : PostPut(r)
    \/ \E r \in Requests : PostReturn(r)
    \/ LoadList
    \/ LoadFetch
    \/ nv_LoadAnswered
    \/ ReloadList
    \/ ReloadFetch
    \/ nv_ReloadAnswered

SpecNamed == InitClient /\ [][nv_Next]_vars

-----------------------------------------------------------------------------
(* The render effect of src/app/page.tsx (lines 274-447) with its dynamic  *)
(* import followed: a run of the effect clears the container and starts    *)
(* the import; the chart is built when the import resolves, which can be   *)
(* after the next run of the effect or after the unmount.  A chart is      *)
(* named by the run that built it.  expanded lists a chart's _expanded    *)
(* flags, one per node of the data.  setExpanded, collapseAll and render   *)
(* are d3-org-chart's: setExpanded(id, v) sets the flag of a node with     *)
(* that id (of any one of them when several nodes carry the id) and does   *)
(* nothing when there is none; the flags render starts with are any.       *)

MaxEffects == 2

\* the row lists given to setRows: none, a manager outside the pod of her
\* report, two rows with the same work email in two pods
RenderRowLists ==
    {<<>>,
     <<FullRow(<<"A">>, EmailA, <<>>, <<>>), FullRow(<<"B">>, EmailBUpper, MgrA, <<"X">>)>>,
     <<FullRow(<<"B">>, EmailA, <<>>, <<"Y", " ">>), FullRow(<<"A">>, EmailA, <<>>, <<"X">>)>>}

\* chart.setExpanded(id, val): the flag lists it can leave
setExpanded(data, flags, id, val) ==
    LET found == {i \in 1..Len(data) : data[i].id = id}
    IN  IF found = {} THEN {flags} ELSE {[flags EXCEPT ![i] = val] : i \in found}

\* for (const id of ids) setExpanded(id, val)
RECURSIVE setExpandedEach(_, _, _, _)
setExpandedEach(data, flagLists, ids, val) ==
    IF ids = <<>> THEN flagLists
    ELSE setExpandedEach(data,
            UNION {setExpanded(data, f, Head(ids), val) : f \in flagLists},
            Tail(ids), val)

\* lines 425-441: in pod view everything is collapsed, then the root and
\* the pod nodes are expanded
initialExpansion(e) ==
    IF e.mode # "pod" THEN [1..Len(e.data) -> BOOLEAN]
    ELSE LET collapsed == [i \in 1..Len(e.data) |-> FALSE]
             withRoot == IF e.rootId # Null
                         THEN setExpanded(e.data, collapsed, e.rootId, TRUE)
                         ELSE {collapsed}
             podIds == [k \in 1..Len(e.byPod) |-> PodPrefix \o e.byPod[k].pod]
         IN  setExpandedEach(e.data, withRoot, podIds, TRUE)

\* idsByPod.get(podName) || []
idsOfPod(byPod, podName) ==
    IF \E k \in 1..Len(byPod) : byPod[k].pod = podName
    THEN byPod[CHOOSE k \in 1..Len(byPod) : byPod[k].pod = podName].ids
    ELSE <<>>

\* lines 311-342: the flag lists a click on node k of the chart of run e
\* can leave
onNodeClick(e, k) ==
    LET data == e.data[k]
        isExpanded == e.expanded[k]
    IN  IF e.mode = "pod" /\ data.isPod
        THEN setExpandedEach(e.data,
                setExpanded(e.data, e.expanded, data.id, ~isExpanded),
                idsOfPod(e.byPod, data.name), ~isExpanded)
        ELSE setExpanded(e.data, e.expanded, data.id, ~isExpanded)

\* setRows (lines 105 and 268): a new array, so every memo is recomputed
\* and the effect is due
setRows(rws) ==
    /\ mounted
    /\ rows' = rws
    /\ effectPending' = TRUE
    /\ UNCHANGED <<viewMode, chartData, renderVars, countVars, storeVars, clientVars>>

\* lines 444-446
cleanup(es) == [i \in 1..Len(es) |-> [es[i] EXCEPT !.cancelled = TRUE]]

\* lines 280 and 284: the charts drawn so far leave the container; their
\* flags are followed no further
undrawn(es) == [i \in 1..Len(es) |-> [es[i] EXCEPT !.expanded = <<>>]]

\* lines 274-289 and 444-446: the cleanup of the run before, then the
\* effect up to its await
RunEffect ==
    /\ mounted
    /\ effectPending
    /\ Len(effects) < MaxEffects
    /\ LET np == normalizedPeople(people(rows))
           data == dataToRender(rows, viewMode)
           run == [data |-> data, mode |-> viewMode, rootId |-> rootId(np),
                   byPod |-> idsByPod(np), cancelled |-> FALSE,
                   pc |-> IF data = <<>> THEN "returned" ELSE "import",
                   expanded |-> <<>>]
       IN  /\ effects' = Append(undrawn(cleanup(effects)), run)
           /\ chartData' = data
    /\ container' = <<>>
    /\ effectPending' = FALSE
    /\ UNCHANGED <<rows, viewMode, chartObjRef, mounted, countVars, storeVars, clientVars>>

\* lines 289-442: the import of run i resolves; unless the run is cancelled
\* or the container is gone the chart is built in the container, kept in
\* chartObjRef and given its first expansion
ImportResolved(i) ==
    /\ i \in 1..Len(effects)
    /\ effects[i].pc = "import"
    /\ IF effects[i].cancelled \/ ~mounted
       THEN /\ effects' = [effects EXCEPT ![i].pc = "returned"]
            /\ UNCHANGED <<container, chartObjRef>>
       ELSE /\ \E flags \in initialExpansion(effects[i]) :
                  effects' = [effects EXCEPT ![i].pc = "built", ![i].expanded = flags]
            /\ container' = Append(container, i)
            /\ chartObjRef' = i
    /\ UNCHANGED <<rows, viewMode, chartData, effectPending, mounted, countVars, storeVars, clientVars>>

\* a click on node k of a chart in the container
NodeClicked(c, k) ==
    /\ mounted
    /\ c \in 1..Len(container)
    /\ k \in 1..Len(effects[container[c]].data)
    /\ \E flags \in onNodeClick(effects[container[c]], k) :
          effects' = [effects EXCEPT ![container[c]].expanded = flags]
    /\ UNCHANGED <<rows, viewMode, chartData, effectPending, container, chartObjRef,
                   mounted, countVars, storeVars, clientVars>>

\* the component unmounts: the cleanup runs and chartRef.current is null
Unmount ==
    /\ mounted
    /\ mounted' = FALSE
    /\ effects' = cleanup(effects)
    /\ UNCHANGED <<rows, viewMode, chartData, effectPending, container, chartObjRef,
                   countVars, storeVars, clientVars>>

InitRender ==
    /\ ClientInit
    /\ RenderInit
    /\ rows = <<>>
    /\ viewMode = "hierarchy"
    /\ chartData = <<>>
    /\ effectPending = TRUE
    /\ adminPassword = Secret
    /\ StoreInit

NextRender ==
    \/ \E rws \in RenderRowLists : setRows(rws)
    \/ \E mode \in {"hierarchy", "pod"} : mounted /\ setTab(mode)
    \/ RunEffect
    \/ \E i \in 1..MaxEffects : ImportResolved(i)
    \/ \E c \in 1..MaxEffects, k \in 1..5 : NodeClicked(c, k)
    \/ Unmount

SpecRender == InitRender /\ [][NextRender]_vars

-----------------------------------------------------------------------------
(* The descendant counts of src/unnamed/part_001 (subtreeCounts, lines     *)
(* 228-266), computed step by step with the call stack of dfsTotalPeople   *)
(* followed.  The tree builder of part_001 (lines 93-223) is that of       *)
(* src/app/page.tsx statement for statement.  A Map is a function from the *)
(* keys it holds.  The engine's call stack holds MaxDepth frames of        *)
(* dfsTotalPeople; a call beyond that throws a RangeError.                 *)

MaxCountRows == 3
MaxDepth == 8

EmailC == <<"c", "@", "x", ".", "c", "o", "m">>

\* the rows of the sheets counted: a root, her report in pod X, the report's
\* email again on a row without a manager, a report of that email, and a
\* person entered as her own manager
CountRowSet ==
    {FullRow(<<"A">>, EmailA, <<>>, <<>>),
     FullRow(<<"B">>, EmailBUpper, MgrA, <<"X">>),
     FullRow(<<"B">>, EmailBUpper, <<>>, <<>>),
     FullRow(<<"C">>, EmailC, MgrB, <<"X">>),
     FullRow(<<"A">>, EmailA, MgrA, <<>>)}

CountRowLists == UNION {[1..n -> CountRowSet] : n \in 0..MaxCountRows}

\* part_001 lines 93-223
sc_podNodes(rws, mode) == dataToRender(rws, mode)

\* nodeById.get(id): the last node set under the id
nodeById(nodes, id) ==
    nodes[CHOOSE i \in 1..Len(nodes) :
            /\ nodes[i].id = id
            /\ \A j \in (i + 1)..Len(nodes) : nodes[j].id # id]

\* !!(node as any)?.isPod
isPodId(nodes, id) ==
    /\ \E i \in 1..Len(nodes) : nodes[i].id = id
    /\ nodeById(nodes, id).isPod

\* childrenByParent.get(id) || []
childrenByParent(nodes, id) ==
    LET kids == SelectSeq(nodes, LAMBDA n : n.parentId # Null /\ n.parentId # <<>>
                                            /\ n.parentId = id)
    IN  [k \in 1..Len(kids) |-> kids[k].id]

\* a call dfsTotalPeople(id) past the memo: its frame
Frame(nodes, id) ==
    [id |-> id, kids |-> childrenByParent(nodes, id), k |-> 1,
     total |-> IF isPodId(nodes, id) THEN 0 ELSE 1]

\* line 263
countOf(n, total) == IF n.isPod THEN total ELSE (IF total - 1 > 0 THEN total - 1 ELSE 0)

\* the render of part_001 computes podNodes and starts subtreeCounts
StartCounts ==
    /\ dfs.pc \in {"idle", "done"}
    /\ effectPending
    /\ chartData' = sc_podNodes(rows, viewMode)
    /\ effectPending' = FALSE
    /\ dfs' = [pc |-> "loop", i |-> 1, stack |-> <<>>, memo |-> <<>>, out |-> <<>>]
    /\ UNCHANGED <<rows, viewMode, renderVars, storeVars, clientVars>>

\* the value dfsTotalPeople returns to the frame below, or to the loop of
\* lines 259-264
Returned(d, total) ==
    IF d.stack = <<>>
    THEN [d EXCEPT !.out = (chartData[d.i].id :> countOf(chartData[d.i], total)) @@ @,
                   !.i = @ + 1]
    ELSE [d EXCEPT !.stack[Len(d.stack)].total = @ + total,
                   !.stack[Len(d.stack)].k = @ + 1]

\* a call dfsTotalPeople(id): lines 243-251
Called(d, id) ==
    IF id \in DOMAIN d.memo THEN Returned(d, d.memo[id])
    ELSE IF Len(d.stack) >= MaxDepth THEN [d EXCEPT !.pc = "RangeError"]
    ELSE [d EXCEPT !.stack = Append(@, Frame(chartData, id))]

\* one step of lines 242-264
CountStep ==
    /\ dfs.pc = "loop"
    /\ dfs' =
         IF dfs.stack = <<>>
         THEN IF dfs.i > Len(chartData) THEN [dfs EXCEPT !.pc = "done"]
              ELSE Called(dfs, chartData[dfs.i].id)
         ELSE LET top == dfs.stack[Len(dfs.stack)]
              IN  IF top.k <= Len(top.kids) THEN Called(dfs, top.kids[top.k])
                  ELSE Returned([dfs EXCEPT !.stack = SubSeq(@, 1, Len(@) - 1),
                                            !.memo = (top.id :> top.total) @@ @],
                                top.total)
    /\ UNCHANGED <<rows, viewMode, chartData, effectPending, renderVars, storeVars, clientVars>>

\* lines 546 and 559: the view is changed between two renders
sc_setViewMode(mode) ==
    /\ dfs.pc \in {"idle", "done"}
    /\ setTab(mode)

InitCounts ==
    /\ ClientInit
    /\ RenderInit
    /\ rows \in CountRowLists
    /\ viewMode = "hierarchy"
    /\ chartData = <<>>
    /\ effectPending = TRUE
    /\ adminPassword = Secret
    /\ StoreInit

NextCounts ==
    \/ StartCounts
    \/ CountStep
    \/ \E mode \in {"hierarchy", "pod"} : sc_setViewMode(mode)

\* a computation that has begun goes on: the render is synchronous
SpecCounts == InitCounts /\ [][NextCounts]_vars /\ WF_vars(CountStep)

-----------------------------------------------------------------------------
(* The pods view of src/unnamed/part_002 with the counts of its buttons    *)
(* (computeDescCounts, lines 82-102).  Its definitions carry the prefix    *)
(* dc_; its views are "hierarchy" and "pods".  rows holds the parsed rows, *)
(* which the page passes through normalizeRow.  dfs.memo is the Map that   *)
(* computeDescCounts returns.                                              *)

NoPod == <<"N", "o", " ", "P", "o", "d">>

\* k.trim().toLowerCase() of the header keys of the sheets
lowerKey(k) ==
    CASE k = "Name" -> "name"
      [] k = "Work Email" -> "work email"
      [] k = "Work email" -> "work email"
      [] k = "Email" -> "email"
      [] k = "Manager Email" -> "manager email"
      [] k = "Manager email" -> "manager email"
      [] k = "Team" -> "team"
      [] k = "Location" -> "location"
      [] k = "Country" -> "country"
      [] k = "Pod" -> "pod"
      [] k = "Photo URL" -> "photo url"
      [] OTHER -> k

\* lines 42-51: the value under the first candidate some header matches
\* without regard to case, trimmed
RECURSIVE getField(_, _)
getField(raw, candidates) ==
    IF candidates = <<>> THEN <<>>
    ELSE LET hits == {k \in DOMAIN raw : lowerKey(k) = Head(candidates)}
         IN  IF hits # {} THEN trim(raw[CHOOSE k \in hits : TRUE])
             ELSE getField(raw, Tail(candidates))

\* lines 54-72, the candidates in lower case
normalizeRow(raw) ==
    ("Name" :> getField(raw, <<"name", "full name">>)) @@
    ("Work Email" :> getField(raw, <<"work email", "email", "workemail", "work e-mail">>)) @@
    ("Manager Email" :> getField(raw, <<"manager email", "manageremail", "manager e-mail">>)) @@
    ("Team" :> getField(raw, <<"team", "department">>)) @@
    ("Location" :> getField(raw, <<"location", "country", "office">>)) @@
    ("Pod" :> getField(raw, <<"pod">>))

\* lines 145-169
dc_personOf(r, i) ==
    LET workEmail == trim(r["Work Email"])
        name == trim(r["Name"])
    IN  [id |-> IF workEmail # <<>> THEN normalizeEmail(workEmail)
                ELSE NamePrefix \o toLowerCase(name) \o <<":">> \o IndexStr(i),
         parentId |-> IF normalizeEmail(r["Manager Email"]) # <<>>
                      THEN normalizeEmail(r["Manager Email"]) ELSE Null,
         name |-> IF name # <<>> THEN name
                  ELSE IF workEmail # <<>> THEN workEmail ELSE NoName,
         email |-> workEmail,
         team |-> trim(r["Team"]),
         location |-> trim(r["Location"]),
         pod |-> IF trim(r["Pod"]) # <<>> THEN trim(r["Pod"]) ELSE NoPod,
         isPod |-> FALSE]

\* lines 144-177
dc_peopleNodes(rws) ==
    LET built == [i \in 1..Len(rws) |-> dc_personOf(normalizeRow(rws[i]), i - 1)]
        ids == {built[i].id : i \in 1..Len(built)}
    IN  [i \in 1..Len(built) |->
            [built[i] EXCEPT !.parentId =
                IF built[i].parentId # Null /\ built[i].parentId \in ids
                THEN built[i].parentId ELSE Null]]

\* lines 180-186: the first root with an @ in its email, else the first root
dc_ceoId(pn) ==
    LET rs == SelectSeq(pn, LAMBDA n : n.parentId = Null)
        withAt == SelectSeq(rs, LAMBDA r : \E c \in 1..Len(r.email) : r.email[c] = "@")
    IN  IF rs = <<>> THEN Null
        ELSE IF withAt # <<>> THEN withAt[1].id ELSE rs[1].id

\* Array.from(new Set(list)): the first of each value, in order
RECURSIVE dc_unique(_, _)
dc_unique(list, seen) ==
    IF list = <<>> THEN <<>>
    ELSE IF Head(list) \in seen THEN dc_unique(Tail(list), seen)
    ELSE <<Head(list)>> \o dc_unique(Tail(list), seen \cup {Head(list)})

\* lines 193-226
dc_podNodes(pn, ceoId) ==
    IF pn = <<>> THEN <<>>
    ELSE LET pods == dc_unique([i \in 1..Len(pn) |-> pn[i].pod], {})
             podHeaderNodes ==
                [k \in 1..Len(pods) |->
                    [id |-> PodPrefix \o pods[k], parentId |-> ceoId,
                     name |-> pods[k], email |-> <<>>, team |-> <<>>, location |-> <<>>,
                     pod |-> pods[k], isPod |-> TRUE]]
             samePod(q) == /\ q.parentId # Null
                           /\ \E j \in 1..Len(pn) : pn[j].id = q.parentId
                           /\ nodeById(pn, q.parentId).pod = q.pod
             adjustedPeople ==
                [i \in 1..Len(pn) |->
                    IF ceoId # Null /\ pn[i].id = ceoId THEN pn[i]
                    ELSE [pn[i] EXCEPT !.parentId =
                            IF samePod(pn[i]) THEN pn[i].parentId
                            ELSE PodPrefix \o pn[i].pod]]
         IN  podHeaderNodes \o adjustedPeople

\* line 229
dc_nodes(rws, view) ==
    LET pn == dc_peopleNodes(rws)
    IN  IF view = "pods" THEN dc_podNodes(pn, dc_ceoId(pn)) ELSE pn

\* lines 91-98: dfs(id), -1 standing for the RangeError of a call deeper
\* than the engine's stack
RECURSIVE dc_dfs(_, _, _)
dc_dfs(nodes, id, depth) ==
    IF depth > MaxDepth THEN -1
    ELSE LET kids == childrenByParent(nodes, id)
             sums == [k \in 1..Len(kids) |-> dc_dfs(nodes, kids[k], depth + 1)]
             add[k \in 0..Len(kids)] == IF k = 0 THEN 0 ELSE add[k - 1] + 1 + sums[k]
         IN  IF \E k \in 1..Len(kids) : sums[k] = -1 THEN -1 ELSE add[Len(kids)]

\* lines 82-102
computeDescCounts(nodes) ==
    [id \in {nodes[i].id : i \in 1..Len(nodes)} |-> dc_dfs(nodes, id, 1)]

\* line 264: descCounts.get(id) || 0
buttonCount(memo, id) == IF id \in DOMAIN memo THEN memo[id] ELSE 0

\* a render of the page: nodes and descCounts are computed (lines 144-232)
dc_Render ==
    /\ effectPending
    /\ dfs.pc \in {"idle", "done"}
    /\ LET nodes == dc_nodes(rows, viewMode)
           memo == computeDescCounts(nodes)
       IN  /\ chartData' = nodes
           /\ dfs' = IF \E id \in DOMAIN memo : memo[id] = -1
                     THEN [IdleCounts EXCEPT !.pc = "RangeError"]
                     ELSE [IdleCounts EXCEPT !.pc = "done", !.memo = memo]
    /\ effectPending' = FALSE
    /\ UNCHANGED <<rows, viewMode, renderVars, storeVars, clientVars>>

\* lines 434 and 447
dc_setView(mode) ==
    /\ dfs.pc \in {"idle", "done"}
    /\ setTab(mode)

DescRowLists ==
    UNION {[1..n -> CountRowSet \cup {FullRow(<<"A">>, EmailA, <<>>, <<"X">>)}] :
             n \in 0..MaxCountRows}

InitDesc ==
    /\ ClientInit
    /\ RenderInit
    /\ rows \in DescRowLists
    /\ viewMode = "hierarchy"
    /\ chartData = <<>>
    /\ effectPending = TRUE
    /\ adminPassword = Secret
    /\ StoreInit

NextDesc ==
    \/ dc_Render
    \/ \E mode \in {"hierarchy", "pods"} : dc_setView(mode)

SpecDesc == InitDesc /\ [][NextDesc]_vars

-----------------------------------------------------------------------------
(* Properties of the node list handed to the chart *)

Rendered == ~effectPending

personsOf(nodes) == SelectSeq(nodes, LAMBDA n : ~n.isPod)

\* C1: in both view modes every node handed to the chart whose parentId is
\* not null has the id of some node of the same list as its parentId.
C1_NoDanglingParent ==
    Rendered =>
        LET ids == {chartData[j].id : j \in 1..Len(chartData)}
        IN  \A i \in 1..Len(chartData) :
                chartData[i].parentId # Null => chartData[i].parentId \in ids

\* pod view with pod nodes and the super-root, built from rows one of which
\* names a manager that is not in the sheet
C1_Witness ==
    /\ Rendered
    /\ viewMode = "pod"
    /\ \E i \in 1..Len(chartData) : chartData[i].isPod
    /\ \E i \in 1..Len(chartData) : chartData[i].id = superRootId
    /\ LET ppl == people(rows)
       IN  \E i \in 1..Len(ppl) :
              ppl[i].parentId # Null /\ ppl[i].parentId \notin idSet(ppl)

\* C2: with more than one natural root the hierarchy output has exactly one
\* node with a null parentId, the synthetic root, and every natural root is
\* its child; with at most one natural root no synthetic root is added.
C2_SuperRoot ==
    (Rendered /\ viewMode = "hierarchy") =>
        LET np == normalizedPeople(people(rows))
            naturalRoots == {i \in 1..Len(np) : np[i].parentId = Null}
        IN  IF Cardinality(naturalRoots) > 1
            THEN /\ Len(chartData) = Len(np) + 1
                 /\ {i \in 1..Len(chartData) : chartData[i].parentId = Null} = {1}
                 /\ chartData[1].id = superRootId
                 /\ \A i \in naturalRoots :
                       /\ chartData[i + 1].id = np[i].id
                       /\ chartData[i + 1].parentId = superRootId
            ELSE /\ chartData = np
                 /\ \A i \in 1..Len(chartData) : chartData[i].id # superRootId

\* two natural roots under the synthetic root
C2_Witness ==
    /\ Rendered
    /\ viewMode = "hierarchy"
    /\ Len(chartData) = 3
    /\ chartData[1].id = superRootId
    /\ chartData[2].parentId = superRootId
    /\ chartData[3].parentId = superRootId

\* C3: a person's parentId is the normalized manager email exactly when that
\* email is the id of some node other than the person; otherwise it is null.
C3_ParentIffOtherNode ==
    Rendered =>
        LET ppl == people(rows)
            np == normalizedPeople(ppl)
        IN  \A i \in 1..Len(np) :
                LET m == ppl[i].parentId
                    other == \E j \in 1..Len(np) : j # i /\ np[j].id = m
                IN  np[i].parentId = (IF m # Null /\ other THEN m ELSE Null)

\* C4: no two person nodes handed to the chart have the same id.
C4_UniqueIds ==
    Rendered =>
        LET ps == personsOf(chartData)
        IN  \A i, j \in 1..Len(ps) : ps[i].id = ps[j].id => i = j

\* C5: for a non-empty row list the tree view has a node with a null parentId.
C5_HasRoot ==
    (Rendered /\ viewMode = "hierarchy" /\ Len(rows) > 0) =>
        \E i \in 1..Len(chartData) : chartData[i].parentId = Null

\* the name, email, team, location and pod a row carries, under the headers
\* src/app/page.tsx reads
rowData(r) ==
    [name |-> trim(pick(r, <<"Name">>)),
     email |-> trim(pick(r, <<"Work Email", "Email", "Work email">>)),
     team |-> trim(pick(r, <<"Team">>)),
     location |-> trim(pick(r, <<"Location", "Country">>)),
     pod |-> trim(pick(r, <<"Pod">>))]

\* the same, under the headers src/unnamed/part_004 reads
pm_rowData(r) ==
    [name |-> trim(field(r, "Name")),
     email |-> trim(field(r, "Work Email")),
     team |-> trim(field(r, "Team")),
     location |-> trim(field(r, "Location")),
     pod |-> trim(field(r, "Pod"))]

nodeData(n) ==
    [name |-> n.name, email |-> n.email, team |-> n.team,
     location |-> n.location, pod |-> n.pod]

\* C6, on src/app/page.tsx: in both views the persons handed to the chart, the
\* super-root apart, are the rows in order, each row with a Name with its data.
C6_OneNodePerRow_Page ==
    Rendered =>
        LET ps == SelectSeq(personsOf(chartData), LAMBDA n : n.id # superRootId)
        IN  /\ Len(ps) = Len(rows)
            /\ \A i \in 1..Len(rows) :
                  rowData(rows[i]).name # <<>> => nodeData(ps[i]) = rowData(rows[i])

\* C6: in both views every row with a Name has exactly one person node with
\* its data: as many person nodes carry a row's data as rows do.  Stated on
\* the variant whose pod view removes nodes (src/unnamed/part_004).
C6_OneNodePerRow ==
    Rendered =>
        LET ps == SelectSeq(chartData, LAMBDA n : n.type = "person")
            data == [i \in 1..Len(rows) |-> pm_rowData(rows[i])]
        IN  \A i \in 1..Len(rows) :
                data[i].name # <<>> =>
                    Cardinality({k \in 1..Len(ps) : nodeData(ps[k]) = data[i]})
                    = Cardinality({j \in 1..Len(rows) : data[j] = data[i]})

\* C7: pod view has exactly one pod node, pod:<label> under the root, for each
\* distinct non-empty pod label of the rows, and a person with a pod is under
\* its pod node exactly when it has no manager in the set or its manager's pod
\* differs; otherwise it keeps its manager.
C7_PodGrouping ==
    (Rendered /\ viewMode = "pod") =>
        LET np == normalizedPeople(people(rows))
            hn == hierarchyNodes(np)
            rid == rootId(np)
            ps == personsOf(chartData)
            podLabels == {trim(pick(rows[i], <<"Pod">>)) : i \in 1..Len(rows)} \ {<<>>}
            podIdx == {j \in 1..Len(chartData) : chartData[j].isPod}
        IN  /\ \A l \in podLabels :
                  Cardinality({j \in podIdx :
                      /\ chartData[j].id = PodPrefix \o l
                      /\ rid # Null
                      /\ chartData[j].parentId = rid}) = 1
            /\ \A j \in podIdx : chartData[j].name \in podLabels
            /\ Cardinality(podIdx) = Cardinality(podLabels)
            /\ Len(ps) = Len(hn)
            /\ \A i \in 1..Len(ps) :
                  LET q == ps[i]
                      h == hn[i].parentId
                      noMgr == h = Null \/ h = superRootId
                      mgrPodDiffers ==
                          \A k \in 1..Len(hn) : hn[k].id = h => hn[k].pod # q.pod
                      underPod == q.parentId = PodPrefix \o q.pod
                  IN  q.pod # <<>> =>
                          /\ underPod <=> (noMgr \/ mgrPodDiffers)
                          /\ ~underPod => q.parentId = h

\* C8: in pod view a person with an empty pod keeps the parentId it has in
\* hierarchy view, which is no pod node, and no pod node has an empty label.
C8_EmptyPodUngrouped ==
    (Rendered /\ viewMode = "pod") =>
        LET hn == dataToRender(rows, "hierarchy")
            ps == personsOf(chartData)
            podIds == {chartData[j].id : j \in {k \in 1..Len(chartData) : chartData[k].isPod}}
        IN  /\ Len(ps) = Len(hn)
            /\ \A i \in 1..Len(ps) :
                  ps[i].pod = <<>> =>
                      /\ ps[i].id = hn[i].id
                      /\ ps[i].parentId = hn[i].parentId
                      /\ ps[i].parentId \notin podIds
            /\ \A j \in 1..Len(chartData) :
                  chartData[j].isPod =>
                      chartData[j].name # <<>> /\ chartData[j].id # PodPrefix

\* pod view with a pod node and a person without a pod whose manager has one
C8_Witness ==
    /\ Rendered
    /\ viewMode = "pod"
    /\ \E j \in 1..Len(chartData) : chartData[j].isPod
    /\ LET ps == personsOf(chartData)
       IN  \E i, k \in 1..Len(ps) :
              /\ ps[i].pod = <<>>
              /\ ps[k].pod # <<>>
              /\ ps[i].parentId = ps[k].id

\* C9: for the rows A (a Name, no emails) and B (work and manager email
\* a@x.com) both are roots under a synthesized super-root.
C9_ExampleSuperRoot ==
    (Rendered /\ viewMode = "hierarchy" /\ rows = <<RowA, RowB>>) =>
        /\ Len(chartData) = 3
        /\ chartData[1].id = superRootId /\ chartData[1].parentId = Null
        /\ chartData[2].name = <<"A">> /\ chartData[2].parentId = superRootId
        /\ chartData[3].name = <<"B">> /\ chartData[3].parentId = superRootId

\* C24: in the per-manager pod view, two pod nodes under the same parent
\* that stand for two distinct pod labels never carry the same id, labels
\* that differ only in letter case, spacing or punctuation included.
C24_DistinctPodIds ==
    (Rendered /\ viewMode = "pods") =>
        \A i, j \in 1..Len(chartData) :
            (/\ chartData[i].type = "pod"
             /\ chartData[j].type = "pod"
             /\ chartData[i].parentId = chartData[j].parentId
             /\ chartData[i].pod # chartData[j].pod)
            => chartData[i].id # chartData[j].id

-----------------------------------------------------------------------------
(* Properties of the store *)

NoPostInProgress == \A r \in Requests : ~InProgress(r)

\* C10: whenever no POST is in progress and at least one has completed, the
\* store holds exactly one blob under the prefix, with the content of the
\* most recently completed upload, however the requests interleaved.
C10_OneBlobLatest_Interleaved ==
    (NoPostInProgress /\ completed # <<>>) =>
        \E b \in blobs : blobs = {b} /\ b.content = completed[Len(completed)]

\* C10, amended: the same for uploads none of which was accepted while
\* another was in progress.
C10_OneBlobLatest ==
    (NoPostInProgress /\ completed # <<>> /\ ~overlapped) =>
        \E b \in blobs : blobs = {b} /\ b.content = completed[Len(completed)]

\* two uploads of different files, one after the other
C10_Witness ==
    /\ NoPostInProgress
    /\ ~overlapped
    /\ Len(completed) >= 2
    /\ completed[Len(completed)] # completed[Len(completed) - 1]

\* the status the three checks of POST give a request, 0 when it passes them
ExpectedStatus(provided, file) ==
    IF adminPassword = "" THEN 500
    ELSE IF provided # adminPassword THEN 401
    ELSE IF ~IsFile(file) THEN 400
    ELSE 0

\* C11: a POST is answered 500 when the secret is not configured, else 401
\* when the header differs from it, else 400 when the file is missing or not
\* a file; a request answered so issues no list, delete or put (its handler
\* is over) and leaves the stored blobs as they were.  (A step that leaves
\* the slot as it was changes nothing at all.)
C11_ValidationOrder ==
    [][\A r \in {q \in Requests : post[q].pc = "idle" /\ post'[q] # post[q]} :
          \A provided \in Passwords, file \in FormFiles :
             PostReceive(r, provided, file) =>
                LET st == ExpectedStatus(provided, file) IN
                IF st = 0
                THEN post'[r].pc = "list" /\ post'[r].file = file
                ELSE /\ post'[r].status = st
                     /\ post'[r].pc = "idle"
                     /\ blobs' = blobs
                     /\ clock' = clock]_vars

\* with a blob stored: one request refused for its header, one for its
\* file
C11_Witness ==
    /\ adminPassword = Secret
    /\ blobs # {}
    /\ \E r, q \in Requests : post[r].status = 401 /\ post[q].status = 400

\* C12: for every set of blobs the store holds while a GET reads it, the GET
\* is answered 404 exactly when its list finds no blob under the prefix, and
\* otherwise 200 with the content of the listed blob with the greatest
\* uploadedAt (the blob it listed being still stored when it is fetched).
C12_GetReturnsLatest ==
    [][/\ GetList =>
            IF blobs = {}
            THEN get'.status = 404 /\ get'.pc = "idle"
            ELSE /\ get'.status # 404
                 /\ get'.latest \in blobs
                 /\ \A c \in blobs : c.uploadedAt <= get'.latest.uploadedAt
       /\ GetFetch => /\ get'.status = 200
                      /\ get.latest \in blobs => get'.body = get.latest.content]_vars

\* a GET answered from a store of two blobs with different contents: the
\* newer one's
C12_Witness ==
    /\ get.pc = "idle"
    /\ get.status = 200
    /\ get.latest \in blobs
    /\ \E c \in blobs : /\ c.uploadedAt < get.latest.uploadedAt
                         /\ c.content # get.latest.content
    /\ \A c \in blobs : c.uploadedAt <= get.latest.uploadedAt
    /\ get.body = get.latest.content

\* C20: once some POST has been answered 200, every GET that lists after it
\* is not answered 404 and returns a stored CSV, a GET running while a later
\* POST is between its deletes and its put included.
C20_NoNotFoundAfterUpload ==
    [][/\ (GetList /\ completed # <<>>) => get'.status # 404
       /\ (GetFetch /\ completed # <<>>) => get'.body \in Files]_vars

\* some POST is between its list and its put
Replacing == \E r \in Requests : post[r].pc \in {"del", "put"}

\* C20, amended: once some POST has been answered 200, a GET that lists
\* while no POST is between its list and its put is not answered 404, and a
\* GET whose listed blob is still stored when it is fetched returns a stored
\* CSV.
C20_NoNotFoundOutsideUpload ==
    [][/\ (GetList /\ completed # <<>> /\ ~Replacing) => get'.status # 404
       /\ (GetFetch /\ completed # <<>> /\ get.latest \in blobs)
             => get'.body \in Files]_vars

\* after a second upload replaced the first, a GET answered with the CSV of
\* the blob that upload stored
C20_Witness ==
    /\ Len(completed) >= 2
    /\ get.pc = "idle"
    /\ get.status = 200
    /\ get.latest.uploadedAt >= 2
    /\ get.body = get.latest.content
    /\ get.body \in Files

-----------------------------------------------------------------------------
(* Properties of the row normalizer *)

\* the first alias of keys, from the i-th on, whose value in row is not empty
RECURSIVE firstNonEmpty(_, _, _)
firstNonEmpty(row, keys, i) ==
    IF i > Len(keys) THEN <<>>
    ELSE IF keys[i] \in DOMAIN row /\ row[keys[i]] # <<>> THEN row[keys[i]]
    ELSE firstNonEmpty(row, keys, i + 1)

\* C15: for every row and every field, pick returns the value of the first
\* alias, in the listed order, that the row carries with a non-empty value,
\* and the empty string when no alias has a non-empty value.
C15_FirstNonEmptyAlias ==
    \A i \in 1..Len(rows) : \A keys \in AliasLists :
        pick(rows[i], keys) = firstNonEmpty(rows[i], keys, 1)

-----------------------------------------------------------------------------
(* Properties of the shape of the tree *)

\* the parentId of the first node of nodes with the given id, null when no
\* node has it
parentOf(nodes, id) ==
    IF \E j \in 1..Len(nodes) : nodes[j].id = id
    THEN nodes[CHOOSE j \in 1..Len(nodes) :
                  /\ nodes[j].id = id
                  /\ \A k \in 1..(j - 1) : nodes[k].id # id].parentId
    ELSE Null

\* the id reached from id by following parentId up to k times, stopping at a
\* node whose parentId is null
RECURSIVE climb(_, _, _)
climb(nodes, id, k) ==
    IF k = 0 \/ parentOf(nodes, id) = Null THEN id
    ELSE climb(nodes, parentOf(nodes, id), k - 1)

\* nodes is one tree: one top-level node, reached from every node
IsOneTree(nodes) ==
    LET tops == {i \in 1..Len(nodes) : nodes[i].parentId = Null}
    IN  /\ Cardinality(tops) = 1
        /\ \A i \in 1..Len(nodes) : \A t \in tops :
               climb(nodes, nodes[i].id, Len(nodes)) = nodes[t].id

\* C17: for every non-empty row list the hierarchy handed to the chart is one
\* connected tree: following parentId from any node reaches the single
\* top-level node, so no node is its own ancestor.
C17_OneTree ==
    (Rendered /\ viewMode = "hierarchy" /\ Len(chartData) > 0) => IsOneTree(chartData)

\* C18: in pod view, for every row list whose hierarchy has a root, the node
\* with id rootId is the one top-level node (its parentId stays null: it is
\* never put under a pod node) and every pod node is its direct child.
C18_RootStaysTop ==
    (Rendered /\ viewMode = "pod") =>
        LET rid == rootId(normalizedPeople(people(rows)))
            tops == {i \in 1..Len(chartData) : chartData[i].parentId = Null}
        IN  rid # Null =>
               /\ Cardinality(tops) = 1
               /\ \A t \in tops : chartData[t].id = rid
               /\ \A i \in 1..Len(chartData) :
                     chartData[i].isPod => chartData[i].parentId = rid

-----------------------------------------------------------------------------
(* Properties of the page as a client *)

\* the user picks a file named *.csv whose header row has no Team column
PicksCsvWithoutTeam(file, pw) ==
    /\ FileSelected(file, pw)
    /\ endsWith(toLowerCase(FileName(file)), <<".", "c", "s", "v">>)
    /\ \A j \in 1..Len(CsvHeader(file)) : CsvHeader(file)[j] # "Team"

\* the error line is the missing-columns message and names Team
ListsTeamMissing(err) ==
    /\ err # <<>>
    /\ err[1] = "Missing required columns: "
    /\ \E j \in 2..Len(err) : err[j] = "Team"

\* C13: picking a CSV whose header row lacks the Team column yields an error
\* that lists Team as missing, and the page shows no chart.
C13_NoChartShown ==
    [][\A file \in LocalFiles, pw \in Passwords :
          PicksCsvWithoutTeam(file, pw) =>
             /\ ListsTeamMissing(error')
             /\ chartData' = <<>>]_vars

\* C13, amended: picking a CSV whose header row lacks the Team column yields
\* an error that lists Team as missing; nothing is sent to the server and no
\* chart is rendered from that CSV: the rows, the chart data and the store
\* stay as they were and no render becomes due.
C13_NothingRenderedFromIt ==
    [][\A file \in LocalFiles, pw \in Passwords :
          PicksCsvWithoutTeam(file, pw) =>
             /\ ListsTeamMissing(error')
             /\ rows' = rows
             /\ chartData' = chartData
             /\ effectPending' = effectPending
             /\ upload' = upload
             /\ post' = post
             /\ blobs' = blobs]_vars

\* the error naming Team on a page that shows the chart of an earlier CSV
C13_Witness ==
    /\ ListsTeamMissing(error)
    /\ Rendered
    /\ chartData # <<>>

\* the header row of the file carries every required column
HasRequiredColumns(file) ==
    \A c \in {"Name", "Work Email", "Manager Email", "Team", "Location", "Photo URL"} :
        \E j \in 1..Len(CsvHeader(file)) : CsvHeader(file)[j] = c

NamedCsv(file) == endsWith(toLowerCase(FileName(file)), <<".", "c", "s", "v">>)

\* C22: a selected file is sent to POST /api/org only when its name ends in
\* .csv and its header row carries every required column; otherwise no
\* request is sent, nothing reaches the store and rows stays as it is.
C22_SentOnlyAfterHeaderCheck ==
    [][\A file \in LocalFiles, pw \in Passwords :
          FileSelected(file, pw) =>
             /\ upload'.n # upload.n => (NamedCsv(file) /\ HasRequiredColumns(file))
             /\ ~(NamedCsv(file) /\ HasRequiredColumns(file)) =>
                   /\ upload' = upload
                   /\ post' = post
                   /\ blobs' = blobs
                   /\ rows' = rows
                   /\ error' # <<>>]_vars

\* a CSV without Team picked after an upload of csvA: one request sent so
\* far, the rows still those of csvA
C22_Witness ==
    /\ ListsTeamMissing(error)
    /\ upload.n = 1
    /\ upload.pc = "idle"
    /\ post[1].status = 200
    /\ rows = papaParse("csvA")
    /\ rows # <<>>

\* the fetch that follows an upload is under way
Reloading == upload.pc \in {"sent", "fetch", "answered"}

\* C23: when POST /api/org answers with a status that is not OK, the error
\* becomes 'Upload failed: ' followed by the text of the answer, the upload
\* ends there with no fetch of /api/org after it and no second POST, and
\* rows stays as it is; a fetch after an upload only ever follows a 200.
C23_FailedUploadEndsThere ==
    /\ [][(UploadAnswered /\ post[1].status # 200) =>
             /\ error' = <<"Upload failed: ", ErrorBody(post[1].status)>>
             /\ upload'.pc = "idle"
             /\ upload'.n = upload.n
             /\ post' = post
             /\ blobs' = blobs
             /\ rows' = rows]_vars
    /\ [](Reloading => post[1].status = 200)

\* csvA uploaded and shown, then an upload refused for its password: the
\* error carries the answer's text and the rows are still those of csvA
C23_Witness ==
    /\ error = <<"Upload failed: ", "{\"error\":\"Unauthorized\"}">>
    /\ upload.pc = "idle"
    /\ upload.n = 2
    /\ post[1].status = 401
    /\ rows = papaParse("csvA")
    /\ rows # <<>>

\* no request of the page is in flight and no answer waits to be parsed
Quiescent ==
    /\ load.pc = "done"
    /\ upload.pc = "idle"
    /\ NoPostInProgress

\* C19: however the initial load and the uploads of the page interleave,
\* once every request and parse has completed rows is the parse of the CSV
\* the store holds: the answer of an earlier fetch does not overwrite the
\* rows of a later upload.
C19_RowsAreStoredCsv_Interleaved ==
    (Quiescent /\ blobs # {}) => rows = papaParse(Latest(blobs).content)

\* C19, amended: the same when no upload was started before the initial load
\* had ended (the page's uploads coming one at a time).
C19_RowsAreStoredCsv ==
    (Quiescent /\ ~raced /\ blobs # {}) => rows = papaParse(Latest(blobs).content)

\* after the initial load, two uploads one after the other: the rows are the
\* two persons of the second CSV
C19_Witness ==
    /\ Quiescent
    /\ ~raced
    /\ completed = <<"csvA", "csvB">>
    /\ Len(rows) = 2
    /\ rows = papaParse("csvB")

-----------------------------------------------------------------------------
(* Properties of the page of src/unnamed/part_005 *)

\* the data rows of a CSV text whose Name is empty after trimming, counted
\* from 1
EmptyNameRows(text) ==
    LET data == papaParse(text)
    IN  {i \in 1..Len(data) :
            trim(pickField(data[i], <<"Name", "Full Name">>)) = <<>>}

\* the error names the first row without a Name as Row <index + 2>, the
\* index counting from 0, and rows is empty
NamesFirstEmptyRow(text, err, rws) ==
    LET first == CHOOSE i \in EmptyNameRows(text) : \A k \in EmptyNameRows(text) : i <= k
    IN  /\ err = <<"Row ", Digits[(first - 1) + 2 + 1], ": Name is empty">>
        /\ rws = <<>>

\* C14: whenever the CSV obtained by the initial load or by the reload after
\* an upload has a data row whose Name is empty after trimming, the error
\* names the first such row as Row <index + 2> and rows is set to the empty
\* list.
C14_EmptyNameReported_AnyCsv ==
    [][/\ (pt_LoadAnswered /\ load.status = 200 /\ EmptyNameRows(load.text) # {})
             => NamesFirstEmptyRow(load.text, error', rows')
       /\ (pt_ReloadAnswered /\ EmptyNameRows(upload.text) # {})
             => NamesFirstEmptyRow(upload.text, error', rows')]_vars

\* C14, amended: the same for a CSV the parser reports no error for; for a
\* CSV with a parse error rows is set to the empty list as well.
C14_EmptyNameReported ==
    [][/\ (pt_LoadAnswered /\ load.status = 200 /\ EmptyNameRows(load.text) # {})
             => /\ rows' = <<>>
                /\ papaErrors(load.text) = <<>>
                      => NamesFirstEmptyRow(load.text, error', rows')
       /\ (pt_ReloadAnswered /\ EmptyNameRows(upload.text) # {})
             => /\ rows' = <<>>
                /\ papaErrors(upload.text) = <<>>
                      => NamesFirstEmptyRow(upload.text, error', rows')]_vars

\* a CSV whose second and third data rows have no Name was uploaded after a
\* good one: the error names Row 3 and the rows are gone
C14_Witness ==
    /\ completed = <<"csvA", "csvNoName">>
    /\ upload.pc = "idle"
    /\ upload.text = "csvNoName"
    /\ error = <<"Row ", "3", ": Name is empty">>
    /\ rows = <<>>

-----------------------------------------------------------------------------
(* Properties of the render effect *)

ImportsResolved == \A i \in 1..Len(effects) : effects[i].pc # "import"

\* run i is superseded: a later run has begun or the component unmounted
Superseded(i) == i < Len(effects) \/ ~mounted

\* the import of a superseded run of the effect resolving builds no chart
\* in the container and leaves chartObjRef as it is
SupersededBuildsNothing ==
    [][\A i \in 1..MaxEffects :
          (ImportResolved(i) /\ Superseded(i)) =>
             /\ container' = container
             /\ chartObjRef' = chartObjRef]_vars

\* with the component mounted, the effect run and every import resolved, the
\* container and chartObjRef hold the chart built from the current node list
\* and view mode, and no other chart
HoldsLatestChart ==
    (mounted /\ ~effectPending /\ ImportsResolved /\ effects # <<>>) =>
        LET last == Len(effects)
        IN  /\ effects[last].data = dataToRender(rows, viewMode)
            /\ effects[last].mode = viewMode
            /\ \A c \in 1..Len(container) : container[c] = last
            /\ chartObjRef \in {0, last}
            /\ effects[last].data # <<>> => (container = <<last>> /\ chartObjRef = last)

\* C21: a run of the render effect that is superseded (its dependencies
\* changed, or the component unmounted) while its import is pending creates
\* no chart and does not write chartObjRef; once every import has resolved
\* the container and chartObjRef hold only the chart built from the most
\* recent node list and view mode.
C21_OnlyLatestChart == SupersededBuildsNothing /\ []HoldsLatestChart

-----------------------------------------------------------------------------
(* Properties of the descendant counts *)

\* C25: dfsTotalPeople terminates for every node list the builder can
\* produce, lists in which the manager references form a cycle or a person
\* is her own manager included: a computation of subtreeCounts that has
\* begun comes to its end.
C25_CountsTerminate == (dfs.pc = "loop") ~> (dfs.pc = "done")

\* the ids of the nodes at most k levels below the ids given, those included
RECURSIVE idsWithin(_, _, _)
idsWithin(nodes, ids, k) ==
    IF k = 0 THEN ids
    ELSE idsWithin(nodes,
            ids \cup {nodes[j].id : j \in {j \in 1..Len(nodes) : nodes[j].parentId \in ids}},
            k - 1)

\* the nodes below the node of that id, by position
nodesBelow(nodes, id) ==
    {j \in 1..Len(nodes) : nodes[j].parentId \in idsWithin(nodes, {id}, Len(nodes))}

Acyclic(nodes) == \A i \in 1..Len(nodes) : i \notin nodesBelow(nodes, nodes[i].id)

personsBelow(nodes, id) == Cardinality({j \in nodesBelow(nodes, id) : ~nodes[j].isPod})

\* the counts of the pod view are computed
PodCountsDone == dfs.pc = "done" /\ ~effectPending /\ viewMode = "pod"

\* C26: for an acyclic pod-view node list, subtreeCounts gives every person
\* node the number of person nodes strictly below it and every pod node the
\* number of person nodes in its subtree; the count is 0 exactly when no
\* person is below the node.
C26_CountsArePersonsBelow ==
    (PodCountsDone /\ Acyclic(chartData)) =>
        \A i \in 1..Len(chartData) :
            /\ chartData[i].id \in DOMAIN dfs.out
            /\ dfs.out[chartData[i].id] = personsBelow(chartData, chartData[i].id)

\* the people whose pod label is that pod, in the page of part_002
peopleOfPod(rws, pod) ==
    LET pn == dc_peopleNodes(rws)
    IN  Cardinality({i \in 1..Len(pn) : pn[i].pod = pod})

\* C27: in the pods view of part_002 the count shown on the button of a pod
\* node is the number of people whose pod label is that pod, whatever the
\* rows.
C27_PodButtonCountsPeople ==
    (dfs.pc = "done" /\ ~effectPending /\ viewMode = "pods") =>
        \A i \in 1..Len(chartData) :
            chartData[i].isPod =>
                buttonCount(dfs.memo, chartData[i].id) = peopleOfPod(rows, chartData[i].pod)

-----------------------------------------------------------------------------
(* Properties of the page of src/unnamed/part_000 *)

\* the initial fetch is answered with a CSV that has every required header
\* and a data row without a Name
LoadsNamelessRow ==
    /\ load.pc = "answered"
    /\ load.status = 200
    /\ requiredHeaderMissing(CsvHeader(load.text)) = <<>>
    /\ nv_nameless(papaParse(load.text)) # {}

\* C28: when the initial load of src/unnamed/part_000 fetches a CSV with a
\* data row whose Name is empty, the error is set to a message carrying
\* that row's number, its index counted from 0 plus 2, and rows is left as
\* it was.
C28_NamelessRowSurfaced ==
    [][(nv_LoadAnswered /\ LoadsNamelessRow)
          => LET nameless == nv_nameless(papaParse(load.text))
                 first == CHOOSE i \in nameless : \A k \in nameless : i <= k
             IN  /\ error' = <<"Row ", Digits[(first - 1) + 2 + 1], " is missing Name">>
                 /\ rows' = rows]_vars

-----------------------------------------------------------------------------
(* Properties of the clicks and of the first expansion in pod view *)

\* the flags a click on node k of chart e is to leave: on a pod node its
\* own flag and the flags of the persons of that pod are the opposite of
\* its flag; on another node that node's flag is the opposite of its own
ClickedFlags(e, k) ==
    [j \in 1..Len(e.data) |->
        IF j = k THEN ~e.expanded[k]
        ELSE IF e.data[k].isPod /\ ~e.data[j].isPod /\ e.data[j].pod = e.data[k].name
        THEN ~e.expanded[k]
        ELSE e.expanded[j]]

\* the flags pod view is to start with: the root and the pod nodes expanded
FreshPodFlags(e) ==
    [j \in 1..Len(e.data) |-> e.data[j].isPod \/ e.data[j].id = e.rootId]

\* C29: in pod view of src/app/page.tsx a click on a pod node whose flag is
\* e sets the flag of that pod node and of every person of that pod to
\* not-e and changes no other flag; a click on a person node toggles only
\* that node's flag; a freshly rendered pod view has every flag false but
\* those of the root and of the pod nodes.
C29_PodViewExpansion ==
    [][/\ \A c \in 1..MaxEffects, k \in 1..5 :
            (NodeClicked(c, k) /\ effects[container[c]].mode = "pod")
               => effects'[container[c]].expanded = ClickedFlags(effects[container[c]], k)
       /\ \A i \in 1..MaxEffects :
            (ImportResolved(i) /\ effects'[i].pc = "built" /\ effects[i].mode = "pod")
               => effects'[i].expanded = FreshPodFlags(effects[i])]_vars

-----------------------------------------------------------------------------
(* Properties of the ids *)

\* the cells of a row the ids are made of, each under the first of its
\* headers the row has (C15 is about that choice), trimmed
rowKeys(r) ==
    [name |-> trim(pick(r, <<"Name">>)),
     workEmail |-> trim(pick(r, <<"Work Email", "Email", "Work email">>)),
     managerEmail |-> trim(pick(r, <<"Manager Email", "Manager email">>)),
     pod |-> trim(pick(r, <<"Pod">>))]

\* C30: the id of the person of a row is the trimmed, lower-cased work email
\* when the row has one, and name:<lower-cased name>:<row index> otherwise;
\* a row whose manager email, trimmed and lower-cased, is the trimmed,
\* lower-cased work email of a row has that row's person as its parent (in
\* pod view unless it is put under the node of its own pod).
C30_IdsAndManagerLinks ==
    Rendered =>
        LET ps == SelectSeq(personsOf(chartData), LAMBDA n : n.id # superRootId)
            keys == [i \in 1..Len(rows) |-> rowKeys(rows[i])]
        IN  /\ Len(ps) = Len(rows)
            /\ \A i \in 1..Len(rows) :
                  ps[i].id = IF keys[i].workEmail # <<>>
                             THEN toLowerCase(keys[i].workEmail)
                             ELSE <<"n", "a", "m", "e", ":">> \o toLowerCase(keys[i].name)
                                  \o <<":", Digits[(i - 1) + 1]>>
            /\ \A i, j \in 1..Len(rows) :
                  (/\ keys[i].workEmail # <<>>
                   /\ toLowerCase(keys[j].managerEmail) = toLowerCase(keys[i].workEmail))
                     => \/ ps[j].parentId = ps[i].id
                        \/ /\ viewMode = "pod"
                           /\ keys[j].pod # <<>>
                           /\ ps[j].parentId = <<"p", "o", "d", ":">> \o keys[j].pod

\* hierarchy view of two rows: the first has the work email a@x.com, the
\* second has no work email and the manager email " A@X.com"; the second
\* person has a name id and the first person as its parent
C30_Witness ==
    /\ Rendered
    /\ viewMode = "hierarchy"
    /\ Len(rows) = 2
    /\ Len(chartData) = 2
    /\ rowKeys(rows[1]).workEmail = EmailA
    /\ "Manager Email" \in DOMAIN rows[2]
    /\ rows[2]["Manager Email"] = MgrA
    /\ chartData[1].id = EmailA
    /\ chartData[2].id = <<"n", "a", "m", "e", ":", "a", ":", "1">>
    /\ chartData[2].parentId = EmailA

====
